---- MODULE Spec2Model ----
(***************************************************************************)
(* Discrete-event simulator of an operating-system storage stack:          *)
(* round-robin CPU scheduler, three-segment LFU buffer cache, disk-request *)
(* scheduler (FIFO / LOOK / FLOOK) and a single-spindle disk.              *)
(*                                                                         *)
(* Time.  The source keeps times as floating-point milliseconds and        *)
(* compares them with a tolerance of 0.0001 ms.  The model keeps times as  *)
(* integer microseconds: every configured time is a whole number of        *)
(* microseconds, so sums and differences are exact and the tolerance       *)
(* (0.1 us) is below one unit:                                             *)
(*     abs(a - b) < 0.0001   is   a = b                                    *)
(*     x <= 0.0001           is   x <= 0                                   *)
(*     x >  0.0001           is   x >  0                                   *)
(*                                                                         *)
(* Objects.  Python objects are records.  Buffers are named by buffer_id,  *)
(* processes by pid, disk requests by request_id; a list of objects is a   *)
(* sequence of those names and the objects' fields live in one map.        *)
(* Python's None is None (-1) for numbers and "none" for segment tags.     *)
(***************************************************************************)
EXTENDS Integers, Sequences, FiniteSets, TLC

None == -1

NoSegment == "none"

\* ------------------------------------------------------------------------
\* Bounds of the model
\* ------------------------------------------------------------------------

\* CacheSpec: largest buffer count and largest segment cap tried, and the
\* number of accesses after which no further access is made.
MaxBuffers == 3

MaxCap == 2

MaxAccesses == 4

\* The sectors a cache access may name under CacheSpec.
CacheSectors == {100, 200, 300, 400}

\* ------------------------------------------------------------------------
\* Python list helpers
\* ------------------------------------------------------------------------

InList(seq, x) == \E i \in 1..Len(seq) : seq[i] = x

\* list.remove(x): drops the first occurrence
ListRemove(seq, x) ==
    LET i == CHOOSE k \in 1..Len(seq) :
                 seq[k] = x /\ \A j \in 1..(k - 1) : seq[j] # x
    IN  SubSeq(seq, 1, i - 1) \o SubSeq(seq, i + 1, Len(seq))

\* list.pop(): the last element is seq[Len(seq)], the rest is ListFront
ListFront(seq) == SubSeq(seq, 1, Len(seq) - 1)

\* list.pop(0): the first element is Head, the rest is Tail

\* dict helpers: a dict is a function on its key set
EmptyDict == [k \in {} |-> None]

DictDel(d, key) == [k \in (DOMAIN d) \ {key} |-> d[k]]

DictSet(d, key, val) == [k \in (DOMAIN d) \cup {key} |-> IF k = key THEN val ELSE d[k]]

\* ------------------------------------------------------------------------
\* buffer_cache.py
\* ------------------------------------------------------------------------

Buffer(buffer_id) ==
    [buffer_id |-> buffer_id, sector |-> None, is_dirty |-> FALSE,
     counter |-> 0, segment |-> NoSegment]

LFUBufferCache(size, left_max, middle_max) ==
    [size            |-> size,
     left_max        |-> left_max,
     middle_max      |-> middle_max,
     buffers         |-> [i \in 0..(size - 1) |-> Buffer(i)],
     left_segment    |-> <<>>,
     middle_segment  |-> <<>>,
     right_segment   |-> <<>>,
     free_buffers    |-> [i \in 1..size |-> i - 1],
     sector_to_buffer |-> EmptyDict,
     hits            |-> 0,
     misses          |-> 0]

find_buffer(c, sector) ==
    IF sector \in DOMAIN c.sector_to_buffer THEN c.sector_to_buffer[sector] ELSE None

\* first loop of _rebalance_segments
RECURSIVE rebalance_left(_)
rebalance_left(c) ==
    IF Len(c.left_segment) > c.left_max
    THEN LET b == c.left_segment[Len(c.left_segment)]
         IN  rebalance_left([c EXCEPT !.left_segment = ListFront(@),
                                      !.buffers[b].segment = "middle",
                                      !.middle_segment = <<b>> \o @])
    ELSE c

\* a variant of the second loop that demotes as soon as Middle is full
RECURSIVE rebalance_middle_eager(_)
rebalance_middle_eager(c) ==
    IF c.middle_segment # <<>> /\ Len(c.middle_segment) >= c.middle_max
    THEN LET b == c.middle_segment[Len(c.middle_segment)]
         IN  rebalance_middle_eager([c EXCEPT !.middle_segment = ListFront(@),
                                              !.buffers[b].segment = "right",
                                              !.right_segment = <<b>> \o @])
    ELSE c

\* second loop of _rebalance_segments
RECURSIVE rebalance_middle(_)
rebalance_middle(c) ==
    IF Len(c.middle_segment) > c.middle_max
    THEN LET b == c.middle_segment[Len(c.middle_segment)]
         IN  rebalance_middle([c EXCEPT !.middle_segment = ListFront(@),
                                        !.buffers[b].segment = "right",
                                        !.right_segment = <<b>> \o @])
    ELSE c

\* mutant: the Left loop demotes only down to left_max + 1
rebalance_segments_lax(c) ==
    rebalance_middle(IF Len(c.left_segment) > c.left_max + 1 THEN rebalance_left(c) ELSE c)

\* mutant: a buffer demoted to the Right segment starts over with counter 1
rebalance_segments_aging(c) ==
    LET r == rebalance_middle(rebalance_left(c))
        demoted == {r.right_segment[i] : i \in 1..Len(r.right_segment)}
                       \ {c.right_segment[i] : i \in 1..Len(c.right_segment)}
    IN  [r EXCEPT !.buffers = [x \in DOMAIN r.buffers |->
                                  IF x \in demoted
                                  THEN [r.buffers[x] EXCEPT !.counter = 1]
                                  ELSE r.buffers[x]]]

_rebalance_segments(c) == rebalance_middle(rebalance_left(c))

\* mutant: every hit counts, also on a buffer that is already in Left
move_to_left_always_count(c, b) ==
    LET c1 == IF InList(c.left_segment, b)
              THEN [c EXCEPT !.left_segment = ListRemove(@, b)]
              ELSE IF InList(c.middle_segment, b)
              THEN [c EXCEPT !.middle_segment = ListRemove(@, b)]
              ELSE IF InList(c.right_segment, b)
              THEN [c EXCEPT !.right_segment = ListRemove(@, b)]
              ELSE c
        c2 == [c1 EXCEPT !.buffers[b].counter = @ + 1]
        c3 == [c2 EXCEPT !.left_segment = <<b>> \o @,
                         !.buffers[b].segment = "left"]
    IN  _rebalance_segments(c3)

\* mutant: a hit moves the buffer to Left and never counts
move_to_left_no_count(c, b) ==
    LET c1 == IF InList(c.left_segment, b)
              THEN [c EXCEPT !.left_segment = ListRemove(@, b)]
              ELSE IF InList(c.middle_segment, b)
              THEN [c EXCEPT !.middle_segment = ListRemove(@, b)]
              ELSE IF InList(c.right_segment, b)
              THEN [c EXCEPT !.right_segment = ListRemove(@, b)]
              ELSE c
        c3 == [c1 EXCEPT !.left_segment = <<b>> \o @,
                         !.buffers[b].segment = "left"]
    IN  _rebalance_segments(c3)

\* mutant: a hit on a buffer already in Left restarts its counter at 1
move_to_left_restart(c, b) ==
    LET old_segment == c.buffers[b].segment
        c1 == IF InList(c.left_segment, b)
              THEN [c EXCEPT !.left_segment = ListRemove(@, b)]
              ELSE IF InList(c.middle_segment, b)
              THEN [c EXCEPT !.middle_segment = ListRemove(@, b)]
              ELSE IF InList(c.right_segment, b)
              THEN [c EXCEPT !.right_segment = ListRemove(@, b)]
              ELSE c
        c2 == IF old_segment \in {"middle", "right"}
              THEN [c1 EXCEPT !.buffers[b].counter = @ + 1]
              ELSE [c1 EXCEPT !.buffers[b].counter = 1]
        c3 == [c2 EXCEPT !.left_segment = <<b>> \o @,
                         !.buffers[b].segment = "left"]
    IN  _rebalance_segments(c3)

_move_to_left(c, b) ==
    LET old_segment == c.buffers[b].segment
        c1 == IF InList(c.left_segment, b)
              THEN [c EXCEPT !.left_segment = ListRemove(@, b)]
              ELSE IF InList(c.middle_segment, b)
              THEN [c EXCEPT !.middle_segment = ListRemove(@, b)]
              ELSE IF InList(c.right_segment, b)
              THEN [c EXCEPT !.right_segment = ListRemove(@, b)]
              ELSE c
        c2 == IF old_segment \in {"middle", "right"}
              THEN [c1 EXCEPT !.buffers[b].counter = @ + 1]
              ELSE c1
        c3 == [c2 EXCEPT !.left_segment = <<b>> \o @,
                         !.buffers[b].segment = "left"]
    IN  _rebalance_segments(c3)

\* min(b.counter for b in bs), bs a non-empty set of buffer ids
min_counter(c, bs) ==
    CHOOSE m \in {c.buffers[b].counter : b \in bs} :
        \A b \in bs : m <= c.buffers[b].counter

\* "for b in seg: if ok(b): buffer = b; break"
first_in(seg, ok) ==
    seg[CHOOSE i \in 1..Len(seg) : seg[i] \in ok /\ \A j \in 1..(i - 1) : seg[j] \notin ok]

\* mutant: the evicted buffer of Right keeps its place in the list
get_free_buffer_keep(c) ==
    IF c.free_buffers # <<>>
    THEN [cache  |-> [c EXCEPT !.free_buffers = Tail(@)],
          buffer |-> Head(c.free_buffers), raised |-> FALSE]
    ELSE IF c.right_segment # <<>>
    THEN [cache |-> c, buffer |-> Head(c.right_segment), raised |-> FALSE]
    ELSE IF c.middle_segment # <<>>
    THEN [cache |-> [c EXCEPT !.middle_segment = ListFront(@)],
          buffer |-> c.middle_segment[Len(c.middle_segment)], raised |-> FALSE]
    ELSE IF c.left_segment # <<>>
    THEN [cache |-> [c EXCEPT !.left_segment = ListFront(@)],
          buffer |-> c.left_segment[Len(c.left_segment)], raised |-> FALSE]
    ELSE [cache |-> c, buffer |-> None, raised |-> TRUE]

\* mutant: in Right, acquisition takes the first buffer with the smallest
\* counter, clean or dirty
get_free_buffer_any_min(c) ==
    IF c.free_buffers # <<>>
    THEN LET b == Head(c.free_buffers)
         IN  [cache  |-> [c EXCEPT !.free_buffers = Tail(@),
                                   !.buffers[b].segment = NoSegment],
              buffer |-> b, raised |-> FALSE]
    ELSE IF c.right_segment # <<>>
    THEN LET right == {c.right_segment[i] : i \in 1..Len(c.right_segment)}
             b == first_in(c.right_segment,
                           {x \in right : c.buffers[x].counter = min_counter(c, right)})
         IN  [cache  |-> [c EXCEPT !.right_segment = ListRemove(@, b),
                                   !.buffers[b].segment = NoSegment],
              buffer |-> b, raised |-> FALSE]
    ELSE IF c.middle_segment # <<>>
    THEN LET b == c.middle_segment[Len(c.middle_segment)]
         IN  [cache  |-> [c EXCEPT !.middle_segment = ListFront(@),
                                   !.buffers[b].segment = NoSegment],
              buffer |-> b, raised |-> FALSE]
    ELSE IF c.left_segment # <<>>
    THEN LET b == c.left_segment[Len(c.left_segment)]
         IN  [cache  |-> [c EXCEPT !.left_segment = ListFront(@),
                                   !.buffers[b].segment = NoSegment],
              buffer |-> b, raised |-> FALSE]
    ELSE [cache |-> c, buffer |-> None, raised |-> TRUE]

\* mutant: acquisition gives up after Middle and never takes the tail of Left
get_free_buffer_no_left(c) ==
    IF c.free_buffers # <<>>
    THEN LET b == Head(c.free_buffers)
         IN  [cache  |-> [c EXCEPT !.free_buffers = Tail(@),
                                   !.buffers[b].segment = NoSegment],
              buffer |-> b, raised |-> FALSE]
    ELSE IF c.right_segment # <<>>
    THEN LET right == {c.right_segment[i] : i \in 1..Len(c.right_segment)}
             clean_buffers == {b \in right : ~c.buffers[b].is_dirty}
             b == IF clean_buffers # {}
                  THEN first_in(c.right_segment,
                                {x \in clean_buffers :
                                    c.buffers[x].counter = min_counter(c, clean_buffers)})
                  ELSE first_in(c.right_segment,
                                {x \in right :
                                    c.buffers[x].counter = min_counter(c, right)})
         IN  [cache  |-> [c EXCEPT !.right_segment = ListRemove(@, b),
                                   !.buffers[b].segment = NoSegment],
              buffer |-> b, raised |-> FALSE]
    ELSE IF c.middle_segment # <<>>
    THEN LET b == c.middle_segment[Len(c.middle_segment)]
         IN  [cache  |-> [c EXCEPT !.middle_segment = ListFront(@),
                                   !.buffers[b].segment = NoSegment],
              buffer |-> b, raised |-> FALSE]
    ELSE [cache |-> c, buffer |-> None, raised |-> TRUE]

\* Result: the cache after the call, the buffer returned, and whether
\* "No available buffers!" was raised instead.
_get_free_buffer(c) ==
    IF c.free_buffers # <<>>
    THEN LET b == Head(c.free_buffers)
         IN  [cache  |-> [c EXCEPT !.free_buffers = Tail(@),
                                   !.buffers[b].segment = NoSegment],
              buffer |-> b, raised |-> FALSE]
    ELSE IF c.right_segment # <<>>
    THEN LET right == {c.right_segment[i] : i \in 1..Len(c.right_segment)}
             clean_buffers == {b \in right : ~c.buffers[b].is_dirty}
             b == IF clean_buffers # {}
                  THEN first_in(c.right_segment,
                                {x \in clean_buffers :
                                    c.buffers[x].counter = min_counter(c, clean_buffers)})
                  ELSE first_in(c.right_segment,
                                {x \in right :
                                    c.buffers[x].counter = min_counter(c, right)})
         IN  [cache  |-> [c EXCEPT !.right_segment = ListRemove(@, b),
                                   !.buffers[b].segment = NoSegment],
              buffer |-> b, raised |-> FALSE]
    ELSE IF c.middle_segment # <<>>
    THEN LET b == c.middle_segment[Len(c.middle_segment)]
         IN  [cache  |-> [c EXCEPT !.middle_segment = ListFront(@),
                                   !.buffers[b].segment = NoSegment],
              buffer |-> b, raised |-> FALSE]
    ELSE IF c.left_segment # <<>>
    THEN LET b == c.left_segment[Len(c.left_segment)]
         IN  [cache  |-> [c EXCEPT !.left_segment = ListFront(@),
                                   !.buffers[b].segment = NoSegment],
              buffer |-> b, raised |-> FALSE]
    ELSE [cache |-> c, buffer |-> None, raised |-> TRUE]

\* mutant: a miss binds the new sector without dropping the evicted
\* buffer's old sector from the index
access_buffer_stale(c, sector, is_write) ==
    LET b == find_buffer(c, sector)
    IN  IF b # None
        THEN LET c1 == _move_to_left([c EXCEPT !.hits = @ + 1], b)
             IN  [cache |-> IF is_write THEN [c1 EXCEPT !.buffers[b].is_dirty = TRUE] ELSE c1,
                  buffer |-> b, is_hit |-> TRUE, need_disk_read |-> FALSE, raised |-> FALSE]
        ELSE LET got == _get_free_buffer([c EXCEPT !.misses = @ + 1])
                 nb  == got.buffer
             IN  IF got.raised
                 THEN [cache |-> got.cache, buffer |-> None, is_hit |-> FALSE,
                       need_disk_read |-> FALSE, raised |-> TRUE]
                 ELSE [cache |-> _rebalance_segments(
                                   [got.cache EXCEPT
                                      !.buffers[nb].sector = sector,
                                      !.buffers[nb].counter = 1,
                                      !.buffers[nb].is_dirty = is_write,
                                      !.sector_to_buffer = DictSet(@, sector, nb),
                                      !.left_segment = <<nb>> \o @,
                                      !.buffers[nb].segment = "left"]),
                       buffer |-> nb, is_hit |-> FALSE,
                       need_disk_read |-> ~is_write, raised |-> FALSE]

\* Result: the cache after the call, (buffer, is_hit, need_disk_read), and
\* whether _get_free_buffer raised.
access_buffer(c, sector, is_write) ==
    LET b == find_buffer(c, sector)
    IN  IF b # None
        THEN LET c1 == _move_to_left([c EXCEPT !.hits = @ + 1], b)
             IN  [cache |-> IF is_write THEN [c1 EXCEPT !.buffers[b].is_dirty = TRUE] ELSE c1,
                  buffer |-> b, is_hit |-> TRUE, need_disk_read |-> FALSE, raised |-> FALSE]
        ELSE LET got == _get_free_buffer([c EXCEPT !.misses = @ + 1])
                 nb  == got.buffer
             IN  IF got.raised
                 THEN [cache |-> got.cache, buffer |-> None, is_hit |-> FALSE,
                       need_disk_read |-> FALSE, raised |-> TRUE]
                 ELSE LET old_sector == got.cache.buffers[nb].sector
                          c1 == IF old_sector # None /\ old_sector \in DOMAIN got.cache.sector_to_buffer
                                THEN [got.cache EXCEPT !.sector_to_buffer = DictDel(@, old_sector)]
                                ELSE got.cache
                          c2 == [c1 EXCEPT !.buffers[nb].sector = sector,
                                           !.buffers[nb].counter = 1,
                                           !.buffers[nb].is_dirty = is_write,
                                           !.sector_to_buffer = DictSet(@, sector, nb)]
                          c3 == [c2 EXCEPT !.left_segment = <<nb>> \o @,
                                           !.buffers[nb].segment = "left"]
                      IN  [cache |-> _rebalance_segments(c3),
                           buffer |-> nb, is_hit |-> FALSE,
                           need_disk_read |-> ~is_write, raised |-> FALSE]

\* [b for b in self.buffers if b.is_dirty], in buffer_id order
RECURSIVE dirty_from(_, _)
dirty_from(c, i) ==
    IF i >= c.size THEN <<>>
    ELSE (IF c.buffers[i].is_dirty THEN <<i>> ELSE <<>>) \o dirty_from(c, i + 1)

get_dirty_buffers(c) == dirty_from(c, 0)

remove_buffer_from_cache(c, b) ==
    LET sec == c.buffers[b].sector
        c1 == IF sec \in DOMAIN c.sector_to_buffer
              THEN [c EXCEPT !.sector_to_buffer = DictDel(@, sec)] ELSE c
        c2 == IF InList(c1.left_segment, b)
              THEN [c1 EXCEPT !.left_segment = ListRemove(@, b)] ELSE c1
        c3 == IF InList(c2.middle_segment, b)
              THEN [c2 EXCEPT !.middle_segment = ListRemove(@, b)] ELSE c2
        c4 == IF InList(c3.right_segment, b)
              THEN [c3 EXCEPT !.right_segment = ListRemove(@, b)] ELSE c3
    IN  [c4 EXCEPT !.buffers[b].segment = NoSegment,
                   !.buffers[b].sector = None,
                   !.buffers[b].counter = 0,
                   !.buffers[b].is_dirty = FALSE,
                   !.free_buffers = Append(@, b)]

\* ------------------------------------------------------------------------
\* config.py (times in microseconds) and the configurations tried
\* ------------------------------------------------------------------------

\* RPM-derived values: ROTATION_LATENCY and SECTOR_RW_TIME, in microseconds
ROTATION_LATENCY(cfg) == ((60 * 1000 * 1000) \div cfg.RPM) \div 2

SECTOR_RW_TIME(cfg) == ((60 * 1000 * 1000) \div cfg.RPM) \div cfg.SECTORS_PER_TRACK

DefaultConfig ==
    [DISK_TRACKS            |-> 10000,
     SECTORS_PER_TRACK      |-> 500,
     TRACK_SEEK_TIME        |-> 500,
     EDGE_SEEK_TIME         |-> 10000,
     RPM                    |-> 7500,
     BUFFER_COUNT           |-> 5,
     SYSCALL_READ_TIME      |-> 150,
     SYSCALL_WRITE_TIME     |-> 150,
     INTERRUPT_HANDLER_TIME |-> 50,
     TIME_QUANTUM           |-> 20000,
     PROCESS_READ_TIME      |-> 7000,
     PROCESS_WRITE_TIME     |-> 7000,
     LFU_LEFT_SEGMENT_MAX   |-> 4,
     LFU_MIDDLE_SEGMENT_MAX |-> 3,
     LOOK_MAX_SAME_TRACK    |-> 5,
     FLOOK_PROCESS_FORWARD  |-> TRUE]

\* A second configuration: a quantum of 4.05 ms (shorter than one compute
\* charge), two buffers with caps 1 and 0, and LOOK_MAX_SAME_TRACK = 2.
TightConfig ==
    [DefaultConfig EXCEPT !.TIME_QUANTUM = 4050,
                          !.BUFFER_COUNT = 2,
                          !.LFU_LEFT_SEGMENT_MAX = 1,
                          !.LFU_MIDDLE_SEGMENT_MAX = 0,
                          !.LOOK_MAX_SAME_TRACK = 2]

\* A third configuration: a quantum of 0.1 ms, shorter than a system call.
ShortQuantumConfig == [DefaultConfig EXCEPT !.TIME_QUANTUM = 100]

Configs == {DefaultConfig, TightConfig, ShortQuantumConfig}

Policies == {"FIFO", "LOOK", "FLOOK"}

\* The sectors a program step may name: 100 and 200 lie on track 0, 700 on
\* track 1 (500 sectors per track).
Sectors == {100, 200, 700}

\* Largest number of processes added, and largest total number of program
\* steps over all processes.
NumProcs == 2

MaxSteps == 3

\* Stands for max_iterations = 1000000 of run_simulation: the model's
\* workloads finish in far fewer iterations unless a process is starved.
max_iterations == 16

\* the literal 1.0 ms of "self.current_time += 1.0"
IdleStep == 1000

\* process_id of the requests the end-of-run flush mints
FlushPid == -1

VARIABLES
    config,           \* the configuration record (module config)
    system,           \* the System object
    pc,               \* position in run_simulation / _execute_process / flush
    iteration_count,  \* local of run_simulation
    frame,            \* locals of _execute_process
    dirty,            \* local of _flush_cache_if_needed
    write_requests,   \* CacheSpec only: sectors with a write request in flight
    workload,         \* ScenarioSpec only: the programs main hands to the processes
    previous_runs,    \* ScenarioSpec only: the System objects of the runs that
                      \* ended earlier in the same program
    returned,         \* SchedSpec only: the requests get_next_request returned,
                      \* in the order of the calls
    ahead,            \* SchedSpec only: for each request, the requests that
                      \* were in the FLOOK active queue when it was added
    after_reset       \* ScenarioSpec only: the current run was started by
                      \* System.reset(), not on a new System

\* the variables that only ScenarioSpec and SchedSpec change
history == <<workload, previous_runs, returned, ahead, after_reset>>

vars == <<config, system, pc, iteration_count, frame, dirty, write_requests, history>>

\* ------------------------------------------------------------------------
\* disk.py
\* ------------------------------------------------------------------------

DiskRequest(request_id, sector, is_write, process_id, time_created) ==
    [request_id     |-> request_id,
     sector         |-> sector,
     track          |-> sector \div config.SECTORS_PER_TRACK,
     is_write       |-> is_write,
     process_id     |-> process_id,
     time_created   |-> time_created,
     time_completed |-> None]

HardDisk ==
    [current_track |-> 0, total_seek_time |-> 0, total_rotational_latency |-> 0,
     total_transfer_time |-> 0, completed_requests |-> 0]

Abs(x) == IF x < 0 THEN -x ELSE x

Min(a, b) == IF a <= b THEN a ELSE b

calculate_seek_time(disk, target_track) ==
    LET direct_time       == Abs(target_track - disk.current_track) * config.TRACK_SEEK_TIME
        edge_time_to_zero == config.EDGE_SEEK_TIME + target_track * config.TRACK_SEEK_TIME
        edge_time_to_last == config.EDGE_SEEK_TIME
                             + (config.DISK_TRACKS - 1 - target_track) * config.TRACK_SEEK_TIME
    IN  Min(direct_time, Min(edge_time_to_zero, edge_time_to_last))

\* ------------------------------------------------------------------------
\* scheduler.py.  One record for the three classes; queue is used by FIFO
\* and LOOK, active_queue and incoming_queue by FLOOK.  The queues hold
\* request ids; reqs maps a request id to its DiskRequest.
\* ------------------------------------------------------------------------

create_scheduler(algorithm_name) ==
    [name              |-> algorithm_name,
     queue             |-> <<>>,
     direction_forward |-> IF algorithm_name = "FLOOK"
                           THEN config.FLOOK_PROCESS_FORWARD ELSE TRUE,
     same_track_count  |-> 0,
     last_track        |-> None,
     active_queue      |-> <<>>,
     incoming_queue    |-> <<>>]

add_request(sch, r) ==
    IF sch.name = "FLOOK"
    THEN [sch EXCEPT !.incoming_queue = Append(@, r)]
    ELSE [sch EXCEPT !.queue = Append(@, r)]

has_requests(sch) ==
    IF sch.name = "FLOOK"
    THEN Len(sch.active_queue) > 0 \/ Len(sch.incoming_queue) > 0
    ELSE Len(sch.queue) > 0

\* list.sort(key=lambda r: r.track): stable
RECURSIVE sort_by_track(_, _)
sort_by_track(q, reqs) ==
    IF q = <<>> THEN <<>>
    ELSE LET rest == sort_by_track(ListFront(q), reqs)
             x    == q[Len(q)]
             le   == SelectSeq(rest, LAMBDA y : reqs[y].track <= reqs[x].track)
             gt   == SelectSeq(rest, LAMBDA y : reqs[y].track > reqs[x].track)
         IN  le \o <<x>> \o gt

\* min(q, key=track) and max(q, key=track): the first extremal element
min_track(q, reqs) ==
    q[CHOOSE i \in 1..Len(q) :
        /\ \A j \in 1..Len(q) : reqs[q[i]].track <= reqs[q[j]].track
        /\ \A j \in 1..(i - 1) : reqs[q[j]].track # reqs[q[i]].track]

max_track(q, reqs) ==
    q[CHOOSE i \in 1..Len(q) :
        /\ \A j \in 1..Len(q) : reqs[q[i]].track >= reqs[q[j]].track
        /\ \A j \in 1..(i - 1) : reqs[q[j]].track # reqs[q[i]].track]

\* mutant: FIFO serves the queued request nearest to the head first
FIFO_get_next_request_nearest(sch, reqs, current_track) ==
    IF sch.queue # <<>>
    THEN LET r == sch.queue[CHOOSE i \in 1..Len(sch.queue) :
                      /\ \A j \in 1..Len(sch.queue) :
                            Abs(reqs[sch.queue[i]].track - current_track)
                                <= Abs(reqs[sch.queue[j]].track - current_track)
                      /\ \A j \in 1..(i - 1) :
                            Abs(reqs[sch.queue[j]].track - current_track)
                                # Abs(reqs[sch.queue[i]].track - current_track)]
         IN  [scheduler |-> [sch EXCEPT !.queue = ListRemove(@, r)], request |-> r]
    ELSE [scheduler |-> sch, request |-> None]

FIFO_get_next_request(sch, reqs, current_track) ==
    IF sch.queue # <<>>
    THEN [scheduler |-> [sch EXCEPT !.queue = Tail(@)], request |-> Head(sch.queue)]
    ELSE [scheduler |-> sch, request |-> None]

\* mutant: LOOK drops a request at the second consecutive pick on one track
RECURSIVE LOOK_get_next_request_eager(_, _, _)
LOOK_get_next_request_eager(sch, reqs, current_track) ==
    IF sch.queue = <<>>
    THEN [scheduler |-> sch, request |-> None]
    ELSE
    LET q          == sort_by_track(sch.queue, reqs)
        candidates == IF sch.direction_forward
                      THEN SelectSeq(q, LAMBDA r : reqs[r].track >= current_track)
                      ELSE SelectSeq(q, LAMBDA r : reqs[r].track <= current_track)
        found      == candidates # <<>>
        candidate  == IF found
                      THEN IF sch.direction_forward
                           THEN min_track(candidates, reqs) ELSE max_track(candidates, reqs)
                      ELSE IF sch.direction_forward
                           THEN min_track(q, reqs) ELSE max_track(q, reqs)
        s1         == [sch EXCEPT !.queue = q,
                                  !.direction_forward = IF found THEN @ ELSE ~@]
    IN  IF s1.last_track = reqs[candidate].track
        THEN LOOK_get_next_request_eager(
                 [s1 EXCEPT !.queue = ListRemove(@, candidate),
                            !.same_track_count = 0],
                 reqs, current_track)
        ELSE [scheduler |-> [s1 EXCEPT !.same_track_count = 1,
                                       !.last_track = reqs[candidate].track,
                                       !.queue = ListRemove(@, candidate)],
              request |-> candidate]

\* mutant: LOOK wraps around to the far end without reversing its direction
RECURSIVE LOOK_get_next_request_no_flip(_, _, _)
LOOK_get_next_request_no_flip(sch, reqs, current_track) ==
    IF sch.queue = <<>>
    THEN [scheduler |-> sch, request |-> None]
    ELSE
    LET q          == sort_by_track(sch.queue, reqs)
        candidates == IF sch.direction_forward
                      THEN SelectSeq(q, LAMBDA r : reqs[r].track >= current_track)
                      ELSE SelectSeq(q, LAMBDA r : reqs[r].track <= current_track)
        found      == candidates # <<>>
        candidate  == IF found
                      THEN IF sch.direction_forward
                           THEN min_track(candidates, reqs) ELSE max_track(candidates, reqs)
                      ELSE IF sch.direction_forward
                           THEN min_track(q, reqs) ELSE max_track(q, reqs)
        s1         == [sch EXCEPT !.queue = q]
    IN  IF s1.last_track = reqs[candidate].track
        THEN IF s1.same_track_count + 1 >= config.LOOK_MAX_SAME_TRACK
             THEN LOOK_get_next_request_no_flip(
                      [s1 EXCEPT !.queue = ListRemove(@, candidate),
                                 !.same_track_count = 0],
                      reqs, current_track)
             ELSE [scheduler |-> [s1 EXCEPT !.same_track_count = @ + 1,
                                            !.queue = ListRemove(@, candidate)],
                   request |-> candidate]
        ELSE [scheduler |-> [s1 EXCEPT !.same_track_count = 1,
                                       !.last_track = reqs[candidate].track,
                                       !.queue = ListRemove(@, candidate)],
              request |-> candidate]

\* mutant: at the LOOK_MAX_SAME_TRACK-th consecutive selection on a track
\* LOOK resets the count and returns the candidate all the same
LOOK_get_next_request_no_drop(sch, reqs, current_track) ==
    IF sch.queue = <<>>
    THEN [scheduler |-> sch, request |-> None]
    ELSE
    LET q          == sort_by_track(sch.queue, reqs)
        candidates == IF sch.direction_forward
                      THEN SelectSeq(q, LAMBDA r : reqs[r].track >= current_track)
                      ELSE SelectSeq(q, LAMBDA r : reqs[r].track <= current_track)
        found      == candidates # <<>>
        candidate  == IF found
                      THEN IF sch.direction_forward
                           THEN min_track(candidates, reqs) ELSE max_track(candidates, reqs)
                      ELSE IF sch.direction_forward
                           THEN min_track(q, reqs) ELSE max_track(q, reqs)
        s1         == [sch EXCEPT !.queue = q,
                                  !.direction_forward = IF found THEN @ ELSE ~@]
    IN  IF s1.last_track = reqs[candidate].track
        THEN [scheduler |-> [s1 EXCEPT !.same_track_count =
                                           IF @ + 1 >= config.LOOK_MAX_SAME_TRACK
                                           THEN 0 ELSE @ + 1,
                                       !.queue = ListRemove(@, candidate)],
              request |-> candidate]
        ELSE [scheduler |-> [s1 EXCEPT !.same_track_count = 1,
                                       !.last_track = reqs[candidate].track,
                                       !.queue = ListRemove(@, candidate)],
              request |-> candidate]

RECURSIVE LOOK_get_next_request(_, _, _)
LOOK_get_next_request(sch, reqs, current_track) ==
    IF sch.queue = <<>>
    THEN [scheduler |-> sch, request |-> None]
    ELSE
    LET q          == sort_by_track(sch.queue, reqs)
        candidates == IF sch.direction_forward
                      THEN SelectSeq(q, LAMBDA r : reqs[r].track >= current_track)
                      ELSE SelectSeq(q, LAMBDA r : reqs[r].track <= current_track)
        found      == candidates # <<>>
        candidate  == IF found
                      THEN IF sch.direction_forward
                           THEN min_track(candidates, reqs) ELSE max_track(candidates, reqs)
                      ELSE IF sch.direction_forward
                           THEN min_track(q, reqs) ELSE max_track(q, reqs)
        s1         == [sch EXCEPT !.queue = q,
                                  !.direction_forward = IF found THEN @ ELSE ~@]
    IN  IF s1.last_track = reqs[candidate].track
        THEN IF s1.same_track_count + 1 >= config.LOOK_MAX_SAME_TRACK
             THEN LOOK_get_next_request(
                      [s1 EXCEPT !.queue = ListRemove(@, candidate),
                                 !.same_track_count = 0],
                      reqs, current_track)
             ELSE [scheduler |-> [s1 EXCEPT !.same_track_count = @ + 1,
                                            !.queue = ListRemove(@, candidate)],
                   request |-> candidate]
        ELSE [scheduler |-> [s1 EXCEPT !.same_track_count = 1,
                                       !.last_track = reqs[candidate].track,
                                       !.queue = ListRemove(@, candidate)],
              request |-> candidate]

\* mutant: FLOOK merges the incoming queue into the active one at every call
FLOOK_get_next_request_unfrozen(sch, reqs, current_track) ==
    IF sch.active_queue = <<>> /\ sch.incoming_queue = <<>>
    THEN [scheduler |-> sch, request |-> None]
    ELSE
    LET s1 == [sch EXCEPT !.active_queue = sort_by_track(@ \o sch.incoming_queue, reqs),
                          !.incoming_queue = <<>>]
        q          == s1.active_queue
        candidates == IF s1.direction_forward
                      THEN SelectSeq(q, LAMBDA r : reqs[r].track >= current_track)
                      ELSE SelectSeq(q, LAMBDA r : reqs[r].track <= current_track)
        found      == candidates # <<>>
        candidate  == IF found
                      THEN IF s1.direction_forward
                           THEN min_track(candidates, reqs) ELSE max_track(candidates, reqs)
                      ELSE IF s1.direction_forward
                           THEN min_track(q, reqs) ELSE max_track(q, reqs)
    IN  [scheduler |-> [s1 EXCEPT !.direction_forward = IF found THEN @ ELSE ~@,
                                  !.active_queue = ListRemove(@, candidate)],
         request |-> candidate]

FLOOK_get_next_request(sch, reqs, current_track) ==
    IF sch.active_queue = <<>> /\ sch.incoming_queue = <<>>
    THEN [scheduler |-> sch, request |-> None]
    ELSE
    LET s1 == IF sch.active_queue = <<>>
              THEN [sch EXCEPT !.active_queue = sort_by_track(sch.incoming_queue, reqs),
                               !.incoming_queue = <<>>]
              ELSE sch
        q          == s1.active_queue
        candidates == IF s1.direction_forward
                      THEN SelectSeq(q, LAMBDA r : reqs[r].track >= current_track)
                      ELSE SelectSeq(q, LAMBDA r : reqs[r].track <= current_track)
        found      == candidates # <<>>
        candidate  == IF found
                      THEN IF s1.direction_forward
                           THEN min_track(candidates, reqs) ELSE max_track(candidates, reqs)
                      ELSE IF s1.direction_forward
                           THEN min_track(q, reqs) ELSE max_track(q, reqs)
    IN  [scheduler |-> [s1 EXCEPT !.direction_forward = IF found THEN @ ELSE ~@,
                                  !.active_queue = ListRemove(@, candidate)],
         request |-> candidate]

\* Result: the scheduler after the call and the request id returned (or None)
get_next_request(sch, reqs, current_track) ==
    IF sch.name = "FIFO" THEN FIFO_get_next_request(sch, reqs, current_track)
    ELSE IF sch.name = "LOOK" THEN LOOK_get_next_request(sch, reqs, current_track)
    ELSE FLOOK_get_next_request(sch, reqs, current_track)

\* ------------------------------------------------------------------------
\* process.py.  A program is revealed step by step: length is
\* len(sector_sequence), and sector_sequence / read_write_pattern hold the
\* steps read so far (the code never looks ahead of current_index).
\* intr_charged is a history field: the interrupt-handler time debited from
\* this process's quantum while it held the CPU.
\* ------------------------------------------------------------------------

Process(pid, length) ==
    [pid                |-> pid,
     length             |-> length,
     sector_sequence    |-> <<>>,
     read_write_pattern |-> <<>>,
     current_index      |-> 0,
     state              |-> "READY",
     remaining_quantum  |-> config.TIME_QUANTUM,
     waiting_for_io     |-> FALSE,
     io_request         |-> None,
     total_cpu_time     |-> 0,
     total_wait_time    |-> 0,
     total_io_time      |-> 0,
     start_time         |-> None,
     finish_time        |-> None,
     ready_since        |-> None,
     intr_charged       |-> 0]

has_more_work(p) == p.current_index < p.length

\* ------------------------------------------------------------------------
\* system.py.  processes maps a pid to its Process (pids are 1, 2, ... in
\* the order of creation, which is the order of the list); ready_queue is a
\* list of pids; blocked_processes maps a pid to (request id, time blocked);
\* pending_disk_operations is a list of (completion time, request id);
\* requests maps the id of every DiskRequest minted to the object.
\* ------------------------------------------------------------------------

System(scheduler_name) ==
    [current_time            |-> 0,
     disk                    |-> HardDisk,
     cache                   |-> LFUBufferCache(config.BUFFER_COUNT,
                                                config.LFU_LEFT_SEGMENT_MAX,
                                                config.LFU_MIDDLE_SEGMENT_MAX),
     scheduler               |-> create_scheduler(scheduler_name),
     processes               |-> <<>>,
     ready_queue             |-> <<>>,
     current_process         |-> None,
     blocked_processes       |-> EmptyDict,
     total_syscall_time      |-> 0,
     total_interrupt_time    |-> 0,
     total_process_time      |-> 0,
     completed_processes     |-> 0,
     pending_disk_operations |-> <<>>,
     request_counter         |-> 0,
     requests                |-> EmptyDict]

add_process(s, length) ==
    LET pid == Len(s.processes) + 1
        p   == [Process(pid, length) EXCEPT !.state = "READY",
                                            !.ready_since = s.current_time,
                                            !.start_time = s.current_time]
    IN  [s EXCEPT !.processes = Append(@, p),
                  !.ready_queue = Append(@, pid)]

_has_active_processes(s) ==
    \E i \in 1..Len(s.processes) : s.processes[i].state # "FINISHED"

\* mutant: the completion of a write leaves the buffer dirty
write_completed_keep_dirty(c, sector, is_write) == c

\* _handle_disk_interrupt, lines 262-264: the cache side of a completion
write_completed(c, sector, is_write) ==
    LET b == find_buffer(c, sector)
    IN  IF b # None /\ is_write THEN [c EXCEPT !.buffers[b].is_dirty = FALSE] ELSE c

\* a variant that puts the unblocked process at the head of the ready queue
handle_disk_interrupt_head(s, request) ==
    LET now == s.current_time + config.INTERRUPT_HANDLER_TIME
        r   == s.requests[request]
        cp  == s.current_process
        s0  == [s EXCEPT !.current_time = now,
                         !.total_interrupt_time = @ + config.INTERRUPT_HANDLER_TIME,
                         !.requests[request].time_completed = now]
        s1  == IF cp # None
               THEN [s0 EXCEPT !.processes[cp].remaining_quantum =
                                    @ - config.INTERRUPT_HANDLER_TIME,
                               !.processes[cp].intr_charged =
                                    @ + config.INTERRUPT_HANDLER_TIME]
               ELSE s0
        s2  == [s1 EXCEPT !.cache = write_completed(@, r.sector, r.is_write)]
    IN  IF r.process_id \in DOMAIN s2.blocked_processes
        THEN LET time_blocked == s2.blocked_processes[r.process_id][2]
                 pid == r.process_id
             IN  [s2 EXCEPT !.blocked_processes = DictDel(@, pid),
                            !.processes[pid].state = "READY",
                            !.processes[pid].waiting_for_io = FALSE,
                            !.processes[pid].io_request = None,
                            !.processes[pid].ready_since = now,
                            !.processes[pid].total_io_time = @ + (now - time_blocked),
                            !.ready_queue = <<pid>> \o @]
        ELSE s2

_handle_disk_interrupt(s, request) ==
    LET now == s.current_time + config.INTERRUPT_HANDLER_TIME
        r   == s.requests[request]
        cp  == s.current_process
        s0  == [s EXCEPT !.current_time = now,
                         !.total_interrupt_time = @ + config.INTERRUPT_HANDLER_TIME,
                         !.requests[request].time_completed = now]
        s1  == IF cp # None
               THEN [s0 EXCEPT !.processes[cp].remaining_quantum =
                                    @ - config.INTERRUPT_HANDLER_TIME,
                               !.processes[cp].intr_charged =
                                    @ + config.INTERRUPT_HANDLER_TIME]
               ELSE s0
        s2  == [s1 EXCEPT !.cache = write_completed(@, r.sector, r.is_write)]
    IN  IF r.process_id \in DOMAIN s2.blocked_processes
        THEN LET time_blocked == s2.blocked_processes[r.process_id][2]
                 pid == r.process_id
             IN  [s2 EXCEPT !.blocked_processes = DictDel(@, pid),
                            !.processes[pid].state = "READY",
                            !.processes[pid].waiting_for_io = FALSE,
                            !.processes[pid].io_request = None,
                            !.processes[pid].ready_since = now,
                            !.processes[pid].total_io_time = @ + (now - time_blocked),
                            !.ready_queue = Append(@, pid)]
        ELSE s2

\* "for t, request in interrupts_now: handle; remove"
RECURSIVE handle_all(_, _)
handle_all(s, interrupts_now) ==
    IF interrupts_now = <<>> THEN s
    ELSE LET e == Head(interrupts_now)
         IN  handle_all([_handle_disk_interrupt(s, e[2]) EXCEPT
                             !.pending_disk_operations = ListRemove(@, e)],
                        Tail(interrupts_now))

RECURSIVE _process_pending_interrupts(_)
_process_pending_interrupts(s) ==
    LET interrupts_now == SelectSeq(s.pending_disk_operations,
                                    LAMBDA e : e[1] = s.current_time)
    IN  IF s.pending_disk_operations = <<>> \/ interrupts_now = <<>>
        THEN s
        ELSE _process_pending_interrupts(handle_all(s, interrupts_now))

\* a variant whose scan finds no completion
next_interrupt_none(s, remaining_time) == <<>>

\* The pending operation the scan of _advance_time_with_interrupts selects:
\* the earliest completion inside (now, now + remaining_time], the first of
\* the list among equal times; <<>> when there is none.
next_interrupt(s, remaining_time) ==
    LET inside == SelectSeq(s.pending_disk_operations,
                            LAMBDA e : /\ 0 < e[1] - s.current_time
                                       /\ e[1] - s.current_time <= remaining_time)
    IN  IF inside = <<>> THEN <<>>
        ELSE inside[CHOOSE i \in 1..Len(inside) :
                        /\ \A j \in 1..Len(inside) : inside[i][1] <= inside[j][1]
                        /\ \A j \in 1..(i - 1) : inside[j][1] # inside[i][1]]

\* the while loop of _advance_time_with_interrupts for the process that
\* held the CPU on entry
RECURSIVE advance_loop(_, _, _, _)
advance_loop(s, process, time_used, remaining_time) ==
    IF ~(remaining_time > 0)
    THEN [system |-> s, time_used |-> time_used, was_interrupted |-> FALSE]
    ELSE
    LET next == next_interrupt(s, remaining_time)
        time_until_quantum_exhausted == s.processes[process].remaining_quantum
        segment_time ==
            IF next # <<>>
            THEN Min(next[1] - s.current_time,
                     Min(time_until_quantum_exhausted, remaining_time))
            ELSE Min(remaining_time, time_until_quantum_exhausted)
        s1 == [s EXCEPT !.current_time = @ + segment_time,
                        !.processes[process].remaining_quantum = @ - segment_time]
        used == time_used + segment_time
        rem  == remaining_time - segment_time
        s2 == IF next # <<>> /\ s1.current_time = next[1]
              THEN [_handle_disk_interrupt(s1, next[2]) EXCEPT
                        !.pending_disk_operations = ListRemove(@, next)]
              ELSE s1
    IN  IF next # <<>> /\ s1.current_time = next[1] /\ s2.current_process # process
        THEN [system |-> s2, time_used |-> used, was_interrupted |-> TRUE]
        ELSE IF s2.processes[process].remaining_quantum <= 0
        THEN [system |-> s2, time_used |-> used, was_interrupted |-> TRUE]
        ELSE advance_loop(s2, process, used, rem)

\* Result: the system after the call and (time_used, was_interrupted)
_advance_time_with_interrupts(s, duration) ==
    IF s.current_process = None
    THEN [system |-> [s EXCEPT !.current_time = @ + duration],
          time_used |-> duration, was_interrupted |-> FALSE]
    ELSE advance_loop(s, s.current_process, 0, duration)

\* a request is put in service also while a completion is pending (used by
\* the mutant kick_disk_overlap)
process_disk_queue_overlap(s) ==
    IF ~has_requests(s.scheduler) THEN s
    ELSE
    LET got == get_next_request(s.scheduler, s.requests, s.disk.current_track)
        s1  == [s EXCEPT !.scheduler = got.scheduler]
    IN  IF got.request = None THEN s1
        ELSE
        LET r == s.requests[got.request]
            total_disk_time == calculate_seek_time(s.disk, r.track)
                               + ROTATION_LATENCY(config) + SECTOR_RW_TIME(config)
        IN  [s1 EXCEPT !.disk.current_track = r.track,
                       !.pending_disk_operations =
                           Append(@, <<s.current_time + total_disk_time, got.request>>)]

_process_disk_queue(s) ==
    IF s.pending_disk_operations # <<>> THEN s
    ELSE IF ~has_requests(s.scheduler) THEN s
    ELSE
    LET got == get_next_request(s.scheduler, s.requests, s.disk.current_track)
        s1  == [s EXCEPT !.scheduler = got.scheduler]
    IN  IF got.request = None THEN s1
        ELSE
        LET r == s.requests[got.request]
            seek_time == calculate_seek_time(s.disk, r.track)
            total_disk_time == seek_time + ROTATION_LATENCY(config) + SECTOR_RW_TIME(config)
        IN  [s1 EXCEPT !.disk.total_seek_time = @ + seek_time,
                       !.disk.total_rotational_latency = @ + ROTATION_LATENCY(config),
                       !.disk.total_transfer_time = @ + SECTOR_RW_TIME(config),
                       !.disk.current_track = r.track,
                       !.disk.completed_requests = @ + 1,
                       !.pending_disk_operations =
                           Append(@, <<s.current_time + total_disk_time, got.request>>)]

\* mutant: the main loop starts the next request without looking at the
\* pending completions
kick_disk_overlap(s) ==
    IF has_requests(s.scheduler) THEN process_disk_queue_overlap(s) ELSE s

\* run_simulation, lines 144-145
kick_disk(s) ==
    IF has_requests(s.scheduler) /\ s.pending_disk_operations = <<>>
    THEN _process_disk_queue(s) ELSE s

\* min(t for t, r in self.pending_disk_operations)
min_pending_time(s) ==
    LET ts == {s.pending_disk_operations[i][1] : i \in 1..Len(s.pending_disk_operations)}
    IN  CHOOSE t \in ts : \A u \in ts : t <= u

\* "System._request_counter += 1; request = DiskRequest(...);
\*  self.scheduler.add_request(request)"
\* a variant that creates the request without handing it to the scheduler
mint_request_unqueued(s, sector, is_write, process_id) ==
    LET id == s.request_counter + 1
    IN  [s EXCEPT !.request_counter = id,
                  !.requests = DictSet(@, id, DiskRequest(id, sector, is_write,
                                                          process_id, s.current_time))]

mint_request(s, sector, is_write, process_id) ==
    LET id == s.request_counter + 1
    IN  [s EXCEPT !.request_counter = id,
                  !.requests = DictSet(@, id, DiskRequest(id, sector, is_write,
                                                          process_id, s.current_time)),
                  !.scheduler = add_request(@, id)]

\* mutant: the preempted process is queued but its state is left RUNNING
preempt_keep_running(s, process) ==
    [s EXCEPT !.processes[process].ready_since = s.current_time,
              !.ready_queue = Append(@, process),
              !.current_process = None]

\* "process.state = 'READY'; process.ready_since = now;
\*  self.ready_queue.append(process); self.current_process = None"
\* a variant that puts the preempted process at the head of the ready queue
preempt_to_head(s, process) ==
    [s EXCEPT !.processes[process].state = "READY",
              !.processes[process].ready_since = s.current_time,
              !.ready_queue = <<process>> \o @,
              !.current_process = None]

preempt(s, process) ==
    [s EXCEPT !.processes[process].state = "READY",
              !.processes[process].ready_since = s.current_time,
              !.ready_queue = Append(@, process),
              !.current_process = None]

\* mutant: the dispatched process keeps the quantum it was preempted with
dispatch_stale_quantum(s) ==
    IF s.current_process = None /\ s.ready_queue # <<>>
    THEN LET p == Head(s.ready_queue)
             s1 == [s EXCEPT !.ready_queue = Tail(@),
                             !.current_process = p,
                             !.processes[p].state = "RUNNING"]
         IN  IF s1.processes[p].ready_since # None
             THEN [s1 EXCEPT !.processes[p].total_wait_time =
                                  @ + (s1.current_time - s1.processes[p].ready_since),
                             !.processes[p].ready_since = None]
             ELSE s1
    ELSE s

\* mutant: the time spent in the ready queue is not charged as wait time
dispatch_no_wait(s) ==
    IF s.current_process = None /\ s.ready_queue # <<>>
    THEN LET p == Head(s.ready_queue)
         IN  [s EXCEPT !.ready_queue = Tail(@),
                       !.current_process = p,
                       !.processes[p].state = "RUNNING",
                       !.processes[p].remaining_quantum = config.TIME_QUANTUM,
                       !.processes[p].ready_since = None]
    ELSE s

\* run_simulation, lines 126-134: dispatch the head of the ready queue
dispatch(s) ==
    IF s.current_process = None /\ s.ready_queue # <<>>
    THEN LET p == Head(s.ready_queue)
             s1 == [s EXCEPT !.ready_queue = Tail(@),
                             !.current_process = p,
                             !.processes[p].state = "RUNNING",
                             !.processes[p].remaining_quantum = config.TIME_QUANTUM]
         IN  IF s1.processes[p].ready_since # None
             THEN [s1 EXCEPT !.processes[p].total_wait_time =
                                  @ + (s1.current_time - s1.processes[p].ready_since),
                             !.processes[p].ready_since = None]
             ELSE s1
    ELSE s

\* _execute_process, lines 297-308: the current process has no more work
finish_process(s) ==
    LET p == s.current_process
    IN  [s EXCEPT !.processes[p].state = "FINISHED",
                  !.processes[p].finish_time = s.current_time,
                  !.completed_processes = @ + 1,
                  !.current_process = None]

\* mutant: the process is charged the nominal system-call time, not the time
\* the clock actually advanced
execute_syscall_nominal(s, sector, is_write) ==
    LET p  == s.current_process
        s1 == [s EXCEPT !.processes[p].sector_sequence = Append(@, sector),
                        !.processes[p].read_write_pattern = Append(@, is_write),
                        !.processes[p].current_index = @ + 1]
        syscall_time == IF is_write THEN config.SYSCALL_WRITE_TIME
                                    ELSE config.SYSCALL_READ_TIME
        adv == _advance_time_with_interrupts(s1, syscall_time)
    IN  [system |-> [adv.system EXCEPT !.processes[p].total_cpu_time = @ + syscall_time,
                                       !.total_syscall_time = @ + syscall_time],
         was_interrupted |-> adv.was_interrupted]

\* _execute_process, lines 310-324: read the next step and charge the
\* system call.  Result: the system and was_interrupted.
execute_syscall(s, sector, is_write) ==
    LET p  == s.current_process
        s1 == [s EXCEPT !.processes[p].sector_sequence = Append(@, sector),
                        !.processes[p].read_write_pattern = Append(@, is_write),
                        !.processes[p].current_index = @ + 1]
        syscall_time == IF is_write THEN config.SYSCALL_WRITE_TIME
                                    ELSE config.SYSCALL_READ_TIME
        adv == _advance_time_with_interrupts(s1, syscall_time)
    IN  [system |-> [adv.system EXCEPT !.processes[p].total_cpu_time = @ + adv.time_used,
                                       !.total_syscall_time = @ + adv.time_used],
         was_interrupted |-> adv.was_interrupted]

\* _execute_process, lines 349-403: queue a disk request and block
\* a variant that sends only reads to the disk
needs_disk_request_reads_only(a, is_write) ==
    a.need_disk_read

\* line 349: "if need_disk_read or (is_write and not is_hit)"
needs_disk_request(a, is_write) ==
    a.need_disk_read \/ (is_write /\ ~a.is_hit)

\* a variant that leaves the blocked process in the Running slot
block_on_io_keep_slot(s, process, sector, is_write) ==
    LET s1 == mint_request(s, sector, is_write, process)
    IN  [s1 EXCEPT !.processes[process].state = "BLOCKED",
                   !.processes[process].waiting_for_io = TRUE,
                   !.processes[process].io_request = s1.request_counter,
                   !.blocked_processes =
                       DictSet(@, process, <<s1.request_counter, s1.current_time>>)]

block_on_io(s, process, sector, is_write) ==
    LET s1 == mint_request(s, sector, is_write, process)
    IN  [s1 EXCEPT !.processes[process].state = "BLOCKED",
                   !.processes[process].waiting_for_io = TRUE,
                   !.processes[process].io_request = s1.request_counter,
                   !.blocked_processes =
                       DictSet(@, process, <<s1.request_counter, s1.current_time>>),
                   !.current_process = None]

\* _execute_process, lines 404-413: charge the processing time.
\* Result: the system and was_interrupted.
execute_compute(s, process, is_write) ==
    LET process_time == IF is_write THEN config.PROCESS_WRITE_TIME
                                    ELSE config.PROCESS_READ_TIME
        adv == _advance_time_with_interrupts(s, process_time)
    IN  [system |-> [adv.system EXCEPT
                        !.processes[process].total_cpu_time = @ + adv.time_used,
                        !.total_process_time = @ + adv.time_used],
         was_interrupted |-> adv.was_interrupted]

\* run_simulation, lines 147-155: nothing to run and somebody is blocked
idle_advance(s) ==
    IF s.current_process = None /\ s.ready_queue = <<>> /\ DOMAIN s.blocked_processes # {}
    THEN IF s.pending_disk_operations # <<>>
         THEN IF min_pending_time(s) > s.current_time
              THEN [s EXCEPT !.current_time = min_pending_time(s)] ELSE s
         ELSE IF has_requests(s.scheduler) THEN _process_disk_queue(s)
         ELSE [s EXCEPT !.current_time = @ + IdleStep]
    ELSE s

\* _flush_cache_if_needed, lines 482-487: one write request per dirty buffer
RECURSIVE flush_enqueue(_, _)
flush_enqueue(s, bs) ==
    IF bs = <<>> THEN s
    ELSE flush_enqueue(mint_request(s, s.cache.buffers[Head(bs)].sector, TRUE, FlushPid),
                       Tail(bs))

\* _flush_cache_if_needed, lines 490-494: one turn of the while loop
\* mutant: a turn of the flush loop starts the next request but does not
\* wait for the completion interrupt
flush_turn_no_wait(s) == _process_disk_queue(s)

flush_turn(s) ==
    LET s1 == _process_disk_queue(s)
    IN  IF s1.pending_disk_operations # <<>>
        THEN _process_pending_interrupts(
                 [s1 EXCEPT !.current_time = min_pending_time(s1)])
        ELSE s1

\* _flush_cache_if_needed, lines 496-497
RECURSIVE flush_remove(_, _)
flush_remove(c, bs) ==
    IF bs = <<>> THEN c
    ELSE flush_remove(remove_buffer_from_cache(c, Head(bs)), Tail(bs))

\* ------------------------------------------------------------------------
\* The kernel's state machine
\* ------------------------------------------------------------------------

NoFrame == [process |-> None, sector |-> None, is_write |-> FALSE, was_interrupted |-> FALSE]

Init ==
    /\ config \in Configs
    /\ workload = <<>>
    /\ previous_runs = <<>>
    /\ returned = <<>>
    /\ ahead = EmptyDict
    /\ after_reset = FALSE
    /\ \E policy \in Policies : system = System(policy)
    /\ pc = "setup"
    /\ iteration_count = 0
    /\ frame = NoFrame
    /\ dirty = <<>>
    /\ write_requests = {}

RECURSIVE total_length(_)
total_length(ps) ==
    IF ps = <<>> THEN 0 ELSE Head(ps).length + total_length(Tail(ps))

\* main: system.add_process(process) for a process with a program of
\* `length` steps
AddProcess ==
    /\ pc = "setup"
    /\ Len(system.processes) < NumProcs
    /\ \E length \in 0..MaxSteps :
          /\ total_length(system.processes) + length <= MaxSteps
          /\ system' = add_process(system, length)
    /\ UNCHANGED <<history, config, pc, iteration_count, frame, dirty, write_requests>>

\* run_simulation is entered
RunSimulation ==
    /\ pc = "setup"
    /\ pc' = "loop"
    /\ iteration_count' = 0
    /\ UNCHANGED <<history, config, system, frame, dirty, write_requests>>

\* the while condition (and the break at the end of the body)
LoopCheck ==
    /\ pc = "loop"
    /\ IF _has_active_processes(system) /\ iteration_count < max_iterations
       THEN iteration_count' = iteration_count + 1 /\ pc' = "interrupts"
       ELSE iteration_count' = iteration_count /\ pc' = "flush"
    /\ UNCHANGED <<history, config, system, frame, dirty, write_requests>>

FireInterrupts ==
    /\ pc = "interrupts"
    /\ system' = _process_pending_interrupts(system)
    /\ pc' = "dispatch"
    /\ UNCHANGED <<history, config, iteration_count, frame, dirty, write_requests>>

Dispatch ==
    /\ pc = "dispatch"
    /\ system' = dispatch(system)
    /\ pc' = "execute"
    /\ UNCHANGED <<history, config, iteration_count, frame, dirty, write_requests>>

\* "if self.current_process:" is false
ExecuteSkip ==
    /\ pc = "execute"
    /\ system.current_process = None
    /\ pc' = "kick"
    /\ UNCHANGED <<history, config, system, iteration_count, frame, dirty, write_requests>>

ExecuteFinish ==
    /\ pc = "execute"
    /\ system.current_process # None
    /\ ~has_more_work(system.processes[system.current_process])
    /\ system' = finish_process(system)
    /\ pc' = "kick"
    /\ UNCHANGED <<history, config, iteration_count, frame, dirty, write_requests>>

ExecuteSyscall ==
    /\ pc = "execute"
    /\ system.current_process # None
    /\ has_more_work(system.processes[system.current_process])
    /\ \E sector \in Sectors, is_write \in BOOLEAN :
          LET r == execute_syscall(system, sector, is_write)
          IN  /\ system' = r.system
              /\ frame' = [process |-> system.current_process, sector |-> sector,
                           is_write |-> is_write, was_interrupted |-> r.was_interrupted]
    /\ pc' = "execute_cache"
    /\ UNCHANGED <<history, config, iteration_count, dirty, write_requests>>

\* the process still holds the CPU with quantum left after the system call
CanAccess ==
    /\ pc = "execute_cache"
    /\ system.current_process = frame.process
    /\ ~frame.was_interrupted
    /\ system.processes[frame.process].remaining_quantum > 0

\* lines 329-339: after the system call
ExecuteSyscallPreempted ==
    /\ pc = "execute_cache"
    /\ ~CanAccess
    /\ system' = IF system.current_process = frame.process
                 THEN preempt(system, frame.process) ELSE system
    /\ pc' = "kick"
    /\ frame' = NoFrame
    /\ UNCHANGED <<history, config, iteration_count, dirty, write_requests>>

\* lines 341-403: the cache access misses (a read, or a write that missed)
ExecuteMiss ==
    /\ CanAccess
    /\ LET a == access_buffer(system.cache, frame.sector, frame.is_write)
       IN  /\ ~a.raised
           /\ needs_disk_request(a, frame.is_write)
           /\ system' = block_on_io([system EXCEPT !.cache = a.cache],
                                    frame.process, frame.sector, frame.is_write)
    /\ pc' = "kick"
    /\ frame' = NoFrame
    /\ UNCHANGED <<history, config, iteration_count, dirty, write_requests>>

\* lines 341-348, 404-413: the data is in the cache
ExecuteHit ==
    /\ CanAccess
    /\ LET a == access_buffer(system.cache, frame.sector, frame.is_write)
       IN  /\ ~a.raised
           /\ ~needs_disk_request(a, frame.is_write)
           /\ LET r == execute_compute([system EXCEPT !.cache = a.cache],
                                       frame.process, frame.is_write)
              IN  /\ system' = r.system
                  /\ frame' = [frame EXCEPT !.was_interrupted = r.was_interrupted]
    /\ pc' = "execute_end"
    /\ UNCHANGED <<history, config, iteration_count, dirty, write_requests>>

\* lines 415-427: after the processing time
ExecuteEnd ==
    /\ pc = "execute_end"
    /\ IF system.current_process = frame.process
          /\ (frame.was_interrupted
                \/ system.processes[frame.process].remaining_quantum <= 0)
       THEN system' = preempt(system, frame.process)
       ELSE system' = system
    /\ pc' = "kick"
    /\ frame' = NoFrame
    /\ UNCHANGED <<history, config, iteration_count, dirty, write_requests>>

\* lines 144-145
KickDisk ==
    /\ pc = "kick"
    /\ system' = kick_disk(system)
    /\ pc' = "idle"
    /\ UNCHANGED <<history, config, iteration_count, frame, dirty, write_requests>>

\* lines 147-155
IdleAdvance ==
    /\ pc = "idle"
    /\ system' = idle_advance(system)
    /\ pc' = "loop"
    /\ UNCHANGED <<history, config, iteration_count, frame, dirty, write_requests>>

\* _flush_cache_if_needed, lines 473-487
FlushStart ==
    /\ pc = "flush"
    /\ dirty' = get_dirty_buffers(system.cache)
    /\ IF dirty' = <<>>
       THEN system' = system /\ pc' = "done"
       ELSE system' = flush_enqueue(system, dirty') /\ pc' = "flush_loop"
    /\ UNCHANGED <<history, config, iteration_count, frame, write_requests>>

\* lines 489-494
FlushLoop ==
    /\ pc = "flush_loop"
    /\ has_requests(system.scheduler)
    /\ system' = flush_turn(system)
    /\ UNCHANGED <<history, config, pc, iteration_count, frame, dirty, write_requests>>

\* lines 496-497
FlushRemove ==
    /\ pc = "flush_loop"
    /\ ~has_requests(system.scheduler)
    /\ system' = [system EXCEPT !.cache = flush_remove(@, dirty)]
    /\ pc' = "done"
    /\ UNCHANGED <<history, config, iteration_count, frame, dirty, write_requests>>

Next ==
    \/ AddProcess
    \/ RunSimulation
    \/ LoopCheck
    \/ FireInterrupts
    \/ Dispatch
    \/ ExecuteSkip
    \/ ExecuteFinish
    \/ ExecuteSyscall
    \/ ExecuteSyscallPreempted
    \/ ExecuteMiss
    \/ ExecuteHit
    \/ ExecuteEnd
    \/ KickDisk
    \/ IdleAdvance
    \/ FlushStart
    \/ FlushLoop
    \/ FlushRemove

Spec == Init /\ [][Next]_vars

\* ------------------------------------------------------------------------
\* The buffer cache on its own: any sequence of accesses, with the
\* completions of the write requests the misses cause arriving at any time,
\* closed by the end-of-run flush.
\* ------------------------------------------------------------------------

CacheConfigs ==
    {[DefaultConfig EXCEPT !.BUFFER_COUNT = n,
                           !.LFU_LEFT_SEGMENT_MAX = l,
                           !.LFU_MIDDLE_SEGMENT_MAX = m] :
        n \in 1..MaxBuffers, l \in 0..MaxCap, m \in 0..MaxCap}

CacheInit ==
    /\ config \in CacheConfigs
    /\ workload = <<>>
    /\ previous_runs = <<>>
    /\ returned = <<>>
    /\ ahead = EmptyDict
    /\ after_reset = FALSE
    /\ system = System("FIFO")
    /\ pc = "cache"
    /\ iteration_count = 0
    /\ frame = NoFrame
    /\ dirty = <<>>
    /\ write_requests = {}

\* _execute_process, lines 341-349: cache.access_buffer(sector, is_write);
\* a write that misses leaves a write request in flight
CacheAccess ==
    /\ pc = "cache"
    /\ system.cache.hits + system.cache.misses < MaxAccesses
    /\ \E sector \in CacheSectors, is_write \in BOOLEAN :
          LET a == access_buffer(system.cache, sector, is_write)
          IN  /\ ~a.raised
              /\ system' = [system EXCEPT !.cache = a.cache]
              /\ write_requests' = IF is_write /\ ~a.is_hit
                                   THEN write_requests \cup {sector}
                                   ELSE write_requests
    /\ UNCHANGED <<history, config, pc, iteration_count, frame, dirty>>

\* _handle_disk_interrupt, lines 262-264, for a write request in flight
CacheWriteCompleted ==
    /\ pc \in {"cache", "cache_flush"}
    /\ \E sector \in write_requests :
          /\ system' = [system EXCEPT !.cache = write_completed(@, sector, TRUE)]
          /\ write_requests' = write_requests \ {sector}
    /\ UNCHANGED <<history, config, pc, iteration_count, frame, dirty>>

\* _flush_cache_if_needed, lines 473-487
CacheFlushStart ==
    /\ pc = "cache"
    /\ dirty' = get_dirty_buffers(system.cache)
    /\ write_requests' = write_requests
                         \cup {system.cache.buffers[dirty'[i]].sector : i \in 1..Len(dirty')}
    /\ pc' = "cache_flush"
    /\ UNCHANGED <<history, config, system, iteration_count, frame>>

\* _flush_cache_if_needed, lines 496-497
CacheFlushRemove ==
    /\ pc = "cache_flush"
    /\ system' = [system EXCEPT !.cache = flush_remove(@, dirty)]
    /\ pc' = "cache_done"
    /\ UNCHANGED <<history, config, iteration_count, frame, dirty, write_requests>>

CacheNext ==
    \/ CacheAccess
    \/ CacheWriteCompleted
    \/ CacheFlushStart
    \/ CacheFlushRemove

CacheSpec == CacheInit /\ [][CacheNext]_vars

\* ------------------------------------------------------------------------
\* The end-to-end scenarios: main builds a System for a policy, adds the
\* processes of a fixed workload and runs the simulation; it may then do the
\* same again in the same program (run_single_simulation called again from
\* the menu loop, or the loop over the policies of compare_algorithms).
\* ------------------------------------------------------------------------

\* Largest number of runs made in one program.
MaxRuns == 2

\* a program of reads
Reads(sectors) == [i \in 1..Len(sectors) |-> <<sectors[i], FALSE>>]

\* a program of writes
Writes(sectors) == [i \in 1..Len(sectors) |-> <<sectors[i], TRUE>>]

\* one process reading five sectors of track 0: under LOOK the fifth request
\* is the LOOK_MAX_SAME_TRACK-th in a row on that track
SameTrackWorkload == <<Reads(<<100, 101, 102, 103, 104>>)>>

\* config.TOTAL_SECTORS
TOTAL_SECTORS == config.DISK_TRACKS * config.SECTORS_PER_TRACK

\* one process reading the first sector past the end of the disk
\* (TOTAL_SECTORS of the default geometry), and one reading sector -1
PastEndWorkload == <<Reads(<<5000000>>)>>

BeforeStartWorkload == <<Reads(<<-1>>)>>

\* The workloads tried: for each process its program, a list of
\* (sector, is_write) as Process.__init__ takes them.
Workloads ==
    { SameTrackWorkload,
      PastEndWorkload,
      BeforeStartWorkload,
      <<Reads(<<100, 200, 300, 400, 500>>)>>,
      <<Reads(<<100, 200, 100>>)>>,
      <<Writes(<<100>>)>>,
      <<Writes(<<100, 100>>)>>,
      <<Reads(<<0, 9999>>), Reads(<<9998, 1>>)>>,
      <<Reads(<<100>>)>> }

ScenarioConfigs == {DefaultConfig, ShortQuantumConfig}

ScenarioInit ==
    /\ config \in ScenarioConfigs
    /\ workload \in Workloads
    /\ previous_runs = <<>>
    /\ returned = <<>>
    /\ ahead = EmptyDict
    /\ after_reset = FALSE
    /\ \E policy \in Policies : system = System(policy)
    /\ pc = "setup"
    /\ iteration_count = 0
    /\ frame = NoFrame
    /\ dirty = <<>>
    /\ write_requests = {}

\* run_single_simulation, lines 17-18: the next process of the workload
ScenarioAddProcess ==
    /\ pc = "setup"
    /\ Len(system.processes) < Len(workload)
    /\ system' = add_process(system, Len(workload[Len(system.processes) + 1]))
    /\ UNCHANGED <<history, config, pc, iteration_count, frame, dirty, write_requests>>

\* run_single_simulation, line 21, once every process was added
ScenarioRun ==
    /\ Len(system.processes) = Len(workload)
    /\ RunSimulation

\* _execute_process, lines 310-324, the step being the next one of the
\* process's program
ScenarioSyscall ==
    /\ pc = "execute"
    /\ system.current_process # None
    /\ has_more_work(system.processes[system.current_process])
    /\ LET p    == system.current_process
           step == workload[p][system.processes[p].current_index + 1]
           r    == execute_syscall(system, step[1], step[2])
       IN  /\ system' = r.system
           /\ frame' = [process |-> p, sector |-> step[1], is_write |-> step[2],
                        was_interrupted |-> r.was_interrupted]
    /\ pc' = "execute_cache"
    /\ UNCHANGED <<history, config, iteration_count, dirty, write_requests>>

\* the next run of the program: a new System for some policy.  The request
\* counter is an attribute of the class System (line 15) and goes on from
\* where the last run left it.
ScenarioNextRun ==
    /\ pc = "done"
    /\ Len(previous_runs) + 1 < MaxRuns
    /\ previous_runs' = Append(previous_runs, system)
    /\ \E policy \in Policies :
          system' = [System(policy) EXCEPT !.request_counter = system.request_counter]
    /\ pc' = "setup"
    /\ iteration_count' = 0
    /\ frame' = NoFrame
    /\ dirty' = <<>>
    /\ after_reset' = FALSE
    /\ UNCHANGED <<config, write_requests, workload, returned, ahead>>

\* Process.reset().  (sector_sequence and read_write_pattern hold the steps
\* read so far, so they start over with current_index; the program itself
\* is not touched.)
Process_reset(p) ==
    [p EXCEPT !.current_index = 0,
              !.state = "READY",
              !.remaining_quantum = config.TIME_QUANTUM,
              !.waiting_for_io = FALSE,
              !.io_request = None,
              !.total_cpu_time = 0,
              !.total_wait_time = 0,
              !.total_io_time = 0,
              !.start_time = None,
              !.finish_time = None,
              !.ready_since = None,
              !.sector_sequence = <<>>,
              !.read_write_pattern = <<>>,
              !.intr_charged = 0]

\* System.reset().  self.scheduler is not assigned: the scheduler object
\* stays, with its direction flag, last_track and same_track_count.  The
\* requests of the ended run are referenced from nowhere any more.
reset(s) ==
    [s EXCEPT !.current_time = 0,
              !.disk = HardDisk,
              !.cache = LFUBufferCache(config.BUFFER_COUNT,
                                       config.LFU_LEFT_SEGMENT_MAX,
                                       config.LFU_MIDDLE_SEGMENT_MAX),
              !.ready_queue = [i \in 1..Len(s.processes) |-> i],
              !.current_process = None,
              !.blocked_processes = EmptyDict,
              !.pending_disk_operations = <<>>,
              !.processes = [i \in 1..Len(s.processes) |-> Process_reset(s.processes[i])],
              !.total_syscall_time = 0,
              !.total_interrupt_time = 0,
              !.total_process_time = 0,
              !.completed_processes = 0,
              !.request_counter = 0,
              !.requests = EmptyDict]

\* the next run of the program made on the same System: system.reset()
\* followed by system.run_simulation()
ScenarioReset ==
    /\ pc = "done"
    /\ Len(previous_runs) + 1 < MaxRuns
    /\ ~has_requests(system.scheduler)
    /\ previous_runs' = Append(previous_runs, system)
    /\ system' = reset(system)
    /\ pc' = "setup"
    /\ iteration_count' = 0
    /\ frame' = NoFrame
    /\ dirty' = <<>>
    /\ after_reset' = TRUE
    /\ UNCHANGED <<config, write_requests, workload, returned, ahead>>

ScenarioNext ==
    \/ ScenarioAddProcess
    \/ ScenarioRun
    \/ LoopCheck
    \/ FireInterrupts
    \/ Dispatch
    \/ ExecuteSkip
    \/ ExecuteFinish
    \/ ScenarioSyscall
    \/ ExecuteSyscallPreempted
    \/ ExecuteMiss
    \/ ExecuteHit
    \/ ExecuteEnd
    \/ KickDisk
    \/ IdleAdvance
    \/ FlushStart
    \/ FlushLoop
    \/ FlushRemove
    \/ ScenarioNextRun
    \/ ScenarioReset

ScenarioSpec == ScenarioInit /\ [][ScenarioNext]_vars

\* ------------------------------------------------------------------------
\* Properties of the buffer cache (checked under CacheSpec)
\* ------------------------------------------------------------------------

SeqToSet(seq) == {seq[i] : i \in 1..Len(seq)}

\* buffers the sector index points at / buffers with a sector assigned /
\* buffers held by one of the three segments
IndexedBuffers(c) == {c.sector_to_buffer[k] : k \in DOMAIN c.sector_to_buffer}

BoundBuffers(c) == {b \in DOMAIN c.buffers : c.buffers[b].sector # None}

SegmentBuffers(c) ==
    SeqToSet(c.left_segment) \cup SeqToSet(c.middle_segment) \cup SeqToSet(c.right_segment)

\* C4: after every cache operation a buffer is a value of the sector index
\* exactly when it has a sector assigned, and exactly when it sits in one of
\* the Left, Middle and Right segments; and the key under which the index
\* holds a buffer is that buffer's sector.
C4_SectorIndexConsistent ==
    LET c == system.cache
    IN  /\ IndexedBuffers(c) = BoundBuffers(c)
        /\ BoundBuffers(c) = SegmentBuffers(c)
        /\ \A k \in DOMAIN c.sector_to_buffer :
              c.buffers[c.sector_to_buffer[k]].sector = k

\* an eviction has rebound a buffer and every buffer is indexed
C4_Witness ==
    LET c == system.cache
    IN  /\ pc = "cache"
        /\ c.misses > c.size
        /\ Cardinality(DOMAIN c.sector_to_buffer) = c.size

AllLists(c) == c.left_segment \o c.middle_segment \o c.right_segment \o c.free_buffers

\* C5: after every cache operation each buffer is in exactly one of the
\* Left segment, the Middle segment, the Right segment and the free list,
\* never twice in a list, so the four lengths add up to the buffer count.
C5_SegmentsPartition ==
    LET c == system.cache
        all == AllLists(c)
    IN  /\ Len(all) = c.size
        /\ \A b \in DOMAIN c.buffers :
              Cardinality({i \in 1..Len(all) : all[i] = b}) = 1

\* a buffer was evicted from the Right segment and all three segments are
\* populated
C5_Witness ==
    LET c == system.cache
    IN  /\ c.misses > c.size
        /\ c.left_segment # <<>>
        /\ c.middle_segment # <<>>
        /\ c.right_segment # <<>>

\* C6: after every cache operation, for every buffer count and every choice
\* of the two caps, the Left segment holds at most LFU_LEFT_SEGMENT_MAX
\* buffers and the Middle segment at most LFU_MIDDLE_SEGMENT_MAX.
C6_SegmentCaps ==
    LET c == system.cache
    IN  /\ Len(c.left_segment) <= config.LFU_LEFT_SEGMENT_MAX
        /\ Len(c.middle_segment) <= config.LFU_MIDDLE_SEGMENT_MAX

\* both capped segments are full, a hit has promoted a buffer, and the
\* overflow was demoted down to the Right segment
C6_Witness ==
    LET c == system.cache
    IN  /\ c.hits > 0
        /\ c.left_max >= 1 /\ Len(c.left_segment) = c.left_max
        /\ c.middle_max >= 1 /\ Len(c.middle_segment) = c.middle_max
        /\ c.right_segment # <<>>

\* C11: while a buffer stays bound to the same sector its counter never
\* decreases, and a counter becomes 1 only when a miss binds the buffer to a
\* sector it was not bound to before.
C11_CounterMonotone ==
    [][\A b \in DOMAIN system.cache.buffers :
          LET old == system.cache.buffers[b]
              new == system'.cache.buffers[b]
          IN  /\ (old.sector # None /\ new.sector = old.sector)
                    => new.counter >= old.counter
              /\ (new.counter = 1 /\ old.counter # 1)
                    => /\ new.sector # None
                       /\ new.sector # old.sector
                       /\ system'.cache.misses = system.cache.misses + 1]_vars

\* a buffer's counter has grown by promotions while another buffer was
\* evicted and bound to a new sector
C11_Witness ==
    LET c == system.cache
    IN  /\ c.misses > c.size
        /\ \E b \in DOMAIN c.buffers : c.buffers[b].counter >= 2
        /\ \E b \in DOMAIN c.buffers : c.buffers[b].counter = 1

\* The caches _rebalance_segments is called on: a reachable cache in which
\* one buffer (a cached one, or the head of the free list) has just been put
\* at the front of Left (lines 88-90 and 103-115).
LeftInsertions(c) ==
    {[c EXCEPT !.left_segment   = <<b>> \o SelectSeq(@, LAMBDA x : x # b),
               !.middle_segment = SelectSeq(@, LAMBDA x : x # b),
               !.right_segment  = SelectSeq(@, LAMBDA x : x # b),
               !.free_buffers   = SelectSeq(@, LAMBDA x : x # b),
               !.buffers[b].segment = "left"] :
        b \in SegmentBuffers(c) \cup (IF c.free_buffers = <<>> THEN {}
                                      ELSE {Head(c.free_buffers)})}

\* C13: rebalancing changes no buffer's counter, sector or dirty flag; it
\* moves the tail of Left to the front of Middle and the tail of Middle to
\* the front of Right, so that only segment membership and the segment tags
\* change (the three lists read one after the other stay the same list).
C13_RebalancePreserves ==
    \A pre \in LeftInsertions(system.cache) :
        LET post == _rebalance_segments(pre)
        IN  /\ \A x \in DOMAIN pre.buffers :
                  /\ post.buffers[x].counter = pre.buffers[x].counter
                  /\ post.buffers[x].sector = pre.buffers[x].sector
                  /\ post.buffers[x].is_dirty = pre.buffers[x].is_dirty
                  /\ post.buffers[x].segment =
                        IF InList(post.left_segment, x) THEN "left"
                        ELSE IF InList(post.middle_segment, x) THEN "middle"
                        ELSE IF InList(post.right_segment, x) THEN "right"
                        ELSE pre.buffers[x].segment
            /\ post.left_segment \o post.middle_segment \o post.right_segment
                  = pre.left_segment \o pre.middle_segment \o pre.right_segment
            /\ post.free_buffers = pre.free_buffers
            /\ post.sector_to_buffer = pre.sector_to_buffer
            /\ post.hits = pre.hits /\ post.misses = pre.misses

\* an insertion into a full Left over a full Middle: the rebalancing
\* demotes a dirty buffer with a counter above 1 down to Right
C13_Witness ==
    \E pre \in LeftInsertions(system.cache) :
        LET post == _rebalance_segments(pre)
        IN  /\ Len(pre.left_segment) > pre.left_max
            /\ Len(post.middle_segment) = Len(pre.middle_segment)
            /\ pre.middle_max >= 1
            /\ Len(post.right_segment) > Len(pre.right_segment)
            /\ LET b == Head(post.right_segment)
               IN  post.buffers[b].is_dirty /\ post.buffers[b].counter >= 2

\* ------------------------------------------------------------------------
\* Properties of the kernel (checked under Spec)
\* ------------------------------------------------------------------------

Pids == 1..Len(system.processes)

RunningProcesses == {i \in Pids : system.processes[i].state = "RUNNING"}

AllBlockedOrFinished ==
    \A i \in Pids : system.processes[i].state \in {"BLOCKED", "FINISHED"}

\* requests waiting in the scheduler / the request the disk is servicing
QueuedRequests ==
    SeqToSet(system.scheduler.queue) \cup SeqToSet(system.scheduler.active_queue)
        \cup SeqToSet(system.scheduler.incoming_queue)

RequestsInService ==
    {system.pending_disk_operations[i][2] : i \in 1..Len(system.pending_disk_operations)}

\* C1: under each scheduling policy, every process added has reached
\* Finished when run_simulation has come to its end.
C1_AllProcessesFinish ==
    pc = "done" => \A i \in Pids : system.processes[i].state = "FINISHED"

\* The iteration bound of run_simulation ends a run only when a request was
\* dropped by the LOOK scheduler: under FIFO and FLOOK every run ends with
\* all processes Finished, before the bound.
RunsEndUnlessLOOK ==
    (pc = "done" /\ system.scheduler.name # "LOOK")
        => /\ \A i \in Pids : system.processes[i].state = "FINISHED"
           /\ iteration_count < max_iterations

\* C2: every request handed to the disk scheduler is waiting in it, is in
\* service, or has been retired by its completion interrupt (none
\* disappears), and all of them have been retired when the run has ended.
C2_EveryRequestRetired ==
    \A id \in DOMAIN system.requests :
        /\ \/ system.requests[id].time_completed # None
           \/ id \in QueuedRequests
           \/ id \in RequestsInService
        /\ pc = "done" => system.requests[id].time_completed # None

\* C3: in every reachable state the pending interrupt set holds at most one
\* entry: the disk services one request at a time.
C3_SingleRequestInService == Len(system.pending_disk_operations) <= 1

\* the disk is busy with one request while another one waits in the
\* scheduler at the point where the main loop would start a service
C3_Witness ==
    /\ pc = "idle"
    /\ Len(system.pending_disk_operations) = 1
    /\ has_requests(system.scheduler)

\* C7 as stated: at every main-loop iteration boundary (the point between
\* two iterations of the loop) exactly one process is Running unless every
\* process is Blocked or Finished.
C7_OneRunningAtBoundary ==
    (pc = "loop" /\ iteration_count >= 1)
        => (AllBlockedOrFinished \/ Cardinality(RunningProcesses) = 1)

\* C7 amended: at every main-loop iteration boundary at most one process is
\* Running, and right after the dispatch step of an iteration exactly one
\* process is Running unless every process is Blocked or Finished.
C7_OneRunningAfterDispatch ==
    /\ pc = "loop" => Cardinality(RunningProcesses) <= 1
    /\ pc = "execute" => (AllBlockedOrFinished \/ Cardinality(RunningProcesses) = 1)

\* a later iteration has dispatched one process while another is Ready
C7_Witness ==
    /\ pc = "execute"
    /\ iteration_count >= 2
    /\ Cardinality(RunningProcesses) = 1
    /\ \E i \in Pids : system.processes[i].state = "READY"

\* C8: the virtual clock never decreases across any kernel action.
C8_ClockMonotone == [][system'.current_time >= system.current_time]_vars

\* the run has ended after the clock advanced by processing time, by an
\* interrupt handler and by the completion of a flush request
C8_Witness ==
    /\ pc = "done"
    /\ system.total_process_time > 0
    /\ system.total_interrupt_time > 0
    /\ \E id \in DOMAIN system.requests :
          /\ system.requests[id].process_id = FlushPid
          /\ system.requests[id].time_completed # None

\* C9: after any kernel action the remaining quantum of a Running process
\* is not below zero; as every advance of the clock while a process runs is
\* debited from its quantum (interrupt-handler time included), this says
\* that the process occupies the CPU for at most TIME_QUANTUM.
C9_QuantumNeverNegative ==
    \A i \in RunningProcesses : system.processes[i].remaining_quantum >= 0

\* C10: for every Finished process, CPU time + I/O wait time + ready-queue
\* wait time is at most finish_time - start_time, and the difference is the
\* interrupt-handler time charged while that process was Running.
C10_AccountingClosure ==
    \A i \in Pids :
        system.processes[i].state = "FINISHED" =>
            LET p == system.processes[i]
                accounted == p.total_cpu_time + p.total_io_time + p.total_wait_time
            IN  /\ accounted <= p.finish_time - p.start_time
                /\ (p.finish_time - p.start_time) - accounted = p.intr_charged

\* a process has finished after being charged for an interrupt handler, with
\* CPU, I/O wait and ready-queue wait time all on its account
C10_Witness ==
    \E i \in Pids :
        /\ system.processes[i].state = "FINISHED"
        /\ system.processes[i].intr_charged > 0
        /\ system.processes[i].total_cpu_time > 0
        /\ system.processes[i].total_io_time > 0
        /\ system.processes[i].total_wait_time > 0

\* the program of the only process begins with the steps `prefix`
OnlyProgramStartsWith(prefix) ==
    /\ Len(system.processes) = 1
    /\ Len(system.processes[1].sector_sequence) >= Len(prefix)
    /\ SubSeq(system.processes[1].sector_sequence, 1, Len(prefix)) = prefix

\* C12: a hit on a sector whose buffer is in Left leaves that buffer's
\* counter unchanged and puts the buffer at the front of Left; and under the
\* default configuration the program [100, 200, 100] gives miss, miss, hit
\* with the buffer of sector 100 at the front of Left with counter 1.
C12_HitInLeftKeepsCounter ==
    LET c == system.cache
    IN  /\ \A sector \in DOMAIN c.sector_to_buffer, is_write \in BOOLEAN :
              LET b == c.sector_to_buffer[sector]
                  a == access_buffer(c, sector, is_write)
              IN  InList(c.left_segment, b) =>
                      /\ a.is_hit /\ a.buffer = b
                      /\ a.cache.hits = c.hits + 1 /\ a.cache.misses = c.misses
                      /\ a.cache.buffers[b].counter = c.buffers[b].counter
                      /\ Head(a.cache.left_segment) = b
        /\ (config = DefaultConfig /\ OnlyProgramStartsWith(<<100, 200>>)
                /\ c.hits + c.misses = 2)
              => (c.misses = 2 /\ c.hits = 0)
        /\ (config = DefaultConfig /\ OnlyProgramStartsWith(<<100, 200, 100>>)
                /\ c.hits + c.misses = 3 /\ pc # "done")
              => /\ c.misses = 2 /\ c.hits = 1
                 /\ 100 \in DOMAIN c.sector_to_buffer
                 /\ Head(c.left_segment) = c.sector_to_buffer[100]
                 /\ c.buffers[c.sector_to_buffer[100]].counter = 1

\* the third access of the program [100, 200, 100] has just been made
C12_Witness ==
    /\ config = DefaultConfig
    /\ OnlyProgramStartsWith(<<100, 200, 100>>)
    /\ system.cache.hits = 1
    /\ pc = "execute_end"

\* C15: with a quantum of 0.1 ms and a system call of 0.15 ms, the step of
\* a dispatched process charges exactly 0.1 ms of system-call time and
\* leaves remaining_quantum at exactly 0; the process then goes back to the
\* tail of the ready queue in state READY, and the attempt records no cache
\* access (neither a hit nor a miss).
C15_QuantumEndsInSyscall ==
    [][(config = ShortQuantumConfig /\ system.current_process # None) =>
          LET p == system.current_process
          IN  /\ (pc = "execute" /\ pc' = "execute_cache") =>
                    /\ system'.processes[p].total_cpu_time
                          = system.processes[p].total_cpu_time + 100
                    /\ system'.total_syscall_time = system.total_syscall_time + 100
                    /\ system'.current_time = system.current_time + 100
                    /\ system'.processes[p].remaining_quantum = 0
                    /\ system'.cache = system.cache
              /\ pc = "execute_cache" =>
                    /\ pc' = "kick"
                    /\ system'.processes[p].state = "READY"
                    /\ system'.processes[p].remaining_quantum = 0
                    /\ system'.processes[p].ready_since = system.current_time
                    /\ system'.ready_queue = Append(system.ready_queue, p)
                    /\ system'.current_process = None
                    /\ system'.cache = system.cache
                    /\ system'.requests = system.requests
                    /\ system'.current_time = system.current_time]_vars

\* a process was preempted in its first system call while another process
\* waits in the ready queue in front of it
C15_Witness ==
    /\ config = ShortQuantumConfig
    /\ pc = "kick"
    /\ Len(system.ready_queue) = 2
    /\ LET p == system.ready_queue[2]
       IN  /\ system.processes[p].state = "READY"
           /\ system.processes[p].current_index = 1
           /\ system.processes[p].total_cpu_time = 100
           /\ system.processes[p].remaining_quantum = 0
    /\ system.cache.hits + system.cache.misses = 0

\* the workload is one process with exactly this program
OnlyProgramIs(sectors, writes) ==
    /\ Len(system.processes) = 1
    /\ system.processes[1].length = Len(sectors)
    /\ system.processes[1].sector_sequence = sectors
    /\ system.processes[1].read_write_pattern = writes

\* C16: under the default configuration a single process whose program is
\* one write to sector 100 causes exactly one disk request in the whole run
\* (its write-miss request; the flush adds none), and a program that writes
\* sector 100 twice (a write miss, then a write hit) causes exactly two disk
\* write requests: the miss request and one flush write.
C16_WriteBackRequests ==
    (pc = "done" /\ config = DefaultConfig) =>
        LET rs == system.requests
        IN  /\ OnlyProgramIs(<<100>>, <<TRUE>>) =>
                  /\ DOMAIN rs = {1}
                  /\ rs[1].is_write /\ rs[1].sector = 100 /\ rs[1].process_id = 1
            /\ OnlyProgramIs(<<100, 100>>, <<TRUE, TRUE>>) =>
                  /\ DOMAIN rs = {1, 2}
                  /\ rs[1].is_write /\ rs[1].sector = 100 /\ rs[1].process_id = 1
                  /\ rs[2].is_write /\ rs[2].sector = 100 /\ rs[2].process_id = FlushPid

\* the run of the program "write 100, write 100" has ended after the flush
\* wrote the buffer back
C16_Witness ==
    /\ pc = "done"
    /\ config = DefaultConfig
    /\ OnlyProgramIs(<<100, 100>>, <<TRUE, TRUE>>)
    /\ system.cache.hits = 1
    /\ system.disk.completed_requests = 2

\* every run of a scenario workload in which LOOK drops no request ends with
\* all processes Finished, before the iteration bound
ScenarioRunsEnd ==
    (pc = "done" /\ ~(system.scheduler.name = "LOOK" /\ workload = SameTrackWorkload))
        => /\ \A i \in Pids : system.processes[i].state = "FINISHED"
           /\ iteration_count < max_iterations

\* the statistics of a run: clock, totals, disk and cache counters and the
\* per-process accounts (_print_final_statistics)
Statistics(s) ==
    [current_time |-> s.current_time,
     total_syscall_time |-> s.total_syscall_time,
     total_interrupt_time |-> s.total_interrupt_time,
     total_process_time |-> s.total_process_time,
     completed_processes |-> s.completed_processes,
     disk |-> s.disk,
     hits |-> s.cache.hits,
     misses |-> s.cache.misses,
     processes |-> [i \in 1..Len(s.processes) |->
                      <<s.processes[i].state, s.processes[i].total_cpu_time,
                        s.processes[i].total_io_time, s.processes[i].total_wait_time,
                        s.processes[i].start_time, s.processes[i].finish_time>>]]

\* C14: a run made after another run of the same program, with the same
\* configuration, workload and policy, produces the same trace (in
\* particular the same request identifiers with the same creation and
\* completion times) and the same statistics as that earlier run.
C14_RunsIdentical ==
    (pc = "done" /\ previous_runs # <<>> /\ ~after_reset
        /\ previous_runs[1].scheduler.name = system.scheduler.name)
      => /\ system.requests = previous_runs[1].requests
         /\ Statistics(system) = Statistics(previous_runs[1])

\* What does hold: the later run has the statistics of the earlier one, and
\* its requests are those of the earlier run under identifiers shifted by
\* the number of requests the earlier run created.
SecondRunShifted ==
    (pc = "done" /\ previous_runs # <<>> /\ ~after_reset
        /\ previous_runs[1].scheduler.name = system.scheduler.name)
      => LET prev == previous_runs[1]
             n    == prev.request_counter
         IN  /\ Statistics(system) = Statistics(prev)
             /\ DOMAIN system.requests = {id + n : id \in DOMAIN prev.requests}
             /\ \A id \in DOMAIN prev.requests :
                   system.requests[id + n]
                       = [prev.requests[id] EXCEPT !.request_id = id + n]

\* the workload of the run is one process reading 100, 200, 300, 400, 500
WarmUpWorkload == <<Reads(<<100, 200, 300, 400, 500>>)>>

\* C17: under the default configuration (5 buffers, Left_max = 4,
\* Middle_max = 3) one process reading 100, 200, 300, 400, 500 makes five
\* misses and no hit; after the fifth access the sector index has five
\* entries, the five sectors are all cached, and exactly one buffer, the
\* one of the first sector, is in Middle, demoted there by the fifth miss
\* (after four accesses Middle is still empty).
C17_WarmUpFillsCache ==
    (config = DefaultConfig /\ workload = WarmUpWorkload) =>
        LET c == system.cache
        IN  /\ c.hits = 0
            /\ c.misses <= 5
            /\ c.misses <= 4 => (c.middle_segment = <<>> /\ Len(c.left_segment) = c.misses)
            /\ c.misses = 5 =>
                  /\ Cardinality(DOMAIN c.sector_to_buffer) = 5
                  /\ DOMAIN c.sector_to_buffer = {100, 200, 300, 400, 500}
                  /\ c.free_buffers = <<>>
                  /\ c.left_segment = <<c.sector_to_buffer[500], c.sector_to_buffer[400],
                                        c.sector_to_buffer[300], c.sector_to_buffer[200]>>
                  /\ c.middle_segment = <<c.sector_to_buffer[100]>>
                  /\ c.right_segment = <<>>
                  /\ c.buffers[c.sector_to_buffer[100]].segment = "middle"
                  /\ \A x \in DOMAIN c.buffers : c.buffers[x].counter = 1

\* the run of the warm-up workload has ended with its five misses made
C17_Witness ==
    /\ config = DefaultConfig
    /\ workload = WarmUpWorkload
    /\ pc = "done"
    /\ system.cache.misses = 5
    /\ system.processes[1].state = "FINISHED"

\* the workload of the run is two processes reading 0, 9999 and 9998, 1
CrossDiskWorkload == <<Reads(<<0, 9999>>), Reads(<<9998, 1>>)>>

\* the run of the given policy among the earlier run and the current one
RunUnder(name) ==
    IF system.scheduler.name = name THEN system ELSE previous_runs[1]

\* C18: under the default configuration, for the workload of two processes
\* reading sectors 0, 9999 and 9998, 1, the run under LOOK and the run under
\* FIFO both serve the four requests of the workload to the end, and the
\* total seek time the disk accumulated under LOOK is less than or equal to
\* the total seek time it accumulated under FIFO.
C18_LookSeekAtMostFifo ==
    (/\ pc = "done" /\ config = DefaultConfig /\ workload = CrossDiskWorkload
     /\ previous_runs # <<>>
     /\ {system.scheduler.name, previous_runs[1].scheduler.name} = {"FIFO", "LOOK"})
      => LET look == RunUnder("LOOK")
             fifo == RunUnder("FIFO")
         IN  /\ look.disk.completed_requests = 4
             /\ fifo.disk.completed_requests = 4
             /\ look.completed_processes = 2
             /\ fifo.completed_processes = 2
             /\ look.disk.total_seek_time <= fifo.disk.total_seek_time

\* the LOOK run of the workload has ended after a FIFO run of it, and the
\* head crossed the disk in both
C18_Witness ==
    /\ pc = "done" /\ config = DefaultConfig /\ workload = CrossDiskWorkload
    /\ previous_runs # <<>>
    /\ previous_runs[1].scheduler.name = "FIFO"
    /\ system.scheduler.name = "LOOK"
    /\ system.disk.total_seek_time > 0
    /\ previous_runs[1].disk.total_seek_time > 0

\* ------------------------------------------------------------------------
\* SchedSpec: a scheduler alone.  Requests on a few tracks are added and
\* get_next_request is called with the head on any of those tracks, in any
\* interleaving.
\* ------------------------------------------------------------------------

MaxRequests == 4

\* one sector on each of the tracks 0, 1, 2 (500 sectors per track)
SchedSectors == {100, 600, 1200}

SchedTracks == {0, 1, 2}

\* the default configuration (LOOK_MAX_SAME_TRACK = 5) and the one with
\* LOOK_MAX_SAME_TRACK = 2
SchedConfigs == {DefaultConfig, TightConfig}

SchedInit ==
    /\ config \in SchedConfigs
    /\ \E policy \in Policies : system = System(policy)
    /\ pc = "scheduler"
    /\ iteration_count = 0
    /\ frame = NoFrame
    /\ dirty = <<>>
    /\ write_requests = {}
    /\ workload = <<>>
    /\ previous_runs = <<>>
    /\ returned = <<>>
    /\ ahead = EmptyDict
    /\ after_reset = FALSE

\* scheduler.add_request(request) with a new read request (as
\* _execute_process creates it at a read miss)
SchedAdd ==
    /\ pc = "scheduler"
    /\ system.request_counter < MaxRequests
    /\ \E sector \in SchedSectors :
          system' = mint_request(system, sector, FALSE, 1)
    /\ ahead' = DictSet(ahead, system.request_counter + 1,
                        SeqToSet(system.scheduler.active_queue))
    /\ UNCHANGED <<config, pc, iteration_count, frame, dirty, write_requests,
                   workload, previous_runs, returned, after_reset>>

\* request = scheduler.get_next_request(current_track), called as
\* _process_disk_queue calls it, when the scheduler has requests
SchedGet ==
    /\ pc = "scheduler"
    /\ has_requests(system.scheduler)
    /\ \E current_track \in SchedTracks :
          LET r == get_next_request(system.scheduler, system.requests, current_track)
          IN  /\ system' = [system EXCEPT !.scheduler = r.scheduler]
              /\ returned' = IF r.request = None THEN returned
                             ELSE Append(returned, r.request)
    /\ UNCHANGED <<config, pc, iteration_count, frame, dirty, write_requests,
                   workload, previous_runs, ahead, after_reset>>

SchedNext == SchedAdd \/ SchedGet

SchedSpec == SchedInit /\ [][SchedNext]_vars

\* C19: under FIFO, get_next_request returns the requests in exactly the
\* order in which they were added, whatever the head track passed to it:
\* the requests returned so far followed by the queue are the requests in
\* the order of their creation, and the call gives the same result for
\* every head track.
C19_FifoInsertionOrder ==
    system.scheduler.name = "FIFO" =>
        /\ returned \o system.scheduler.queue
              = [i \in 1..system.request_counter |-> i]
        /\ \A t1 \in SchedTracks, t2 \in SchedTracks :
              get_next_request(system.scheduler, system.requests, t1)
                  = get_next_request(system.scheduler, system.requests, t2)
        /\ system.scheduler.queue # <<>> =>
              \A t \in SchedTracks :
                  get_next_request(system.scheduler, system.requests, t).request
                      = Head(system.scheduler.queue)

\* FIFO returned three requests on three different tracks in the order of
\* their arrival, the first of them not on the track nearest to the head
C19_Witness ==
    /\ pc = "scheduler"
    /\ system.scheduler.name = "FIFO"
    /\ returned = <<1, 2, 3>>
    /\ system.requests[1].track = 2
    /\ system.requests[2].track = 0
    /\ system.requests[3].track = 1

\* C20: under FLOOK, a request is returned only after every request that
\* was in the active queue when it was added has been returned, and
\* requests leave the incoming queue (the swap active <- incoming) only in
\* a call made when the active queue is empty.
C20_FlookFreezesActive ==
    [][system.scheduler.name = "FLOOK" =>
          /\ returned' # returned =>
                ahead[returned'[Len(returned')]] \subseteq SeqToSet(returned)
          /\ ~(SeqToSet(system.scheduler.incoming_queue)
                   \subseteq SeqToSet(system'.scheduler.incoming_queue)) =>
                /\ system.scheduler.active_queue = <<>>
                /\ system'.scheduler.incoming_queue = <<>>]_vars

\* FLOOK returned a request that had been added while two requests were in
\* the active queue, one of them on the far side of it
C20_Witness ==
    /\ pc = "scheduler"
    /\ system.scheduler.name = "FLOOK"
    /\ Len(returned) = 4
    /\ returned[4] = 4
    /\ ahead[4] = {2, 3}
    /\ system.requests[4].track = 1
    /\ system.requests[2].track = 0
    /\ system.requests[3].track = 2

\* some step of the workload names a sector outside 0 .. TOTAL_SECTORS - 1
WorkloadOutOfRange ==
    \E p \in 1..Len(workload) : \E i \in 1..Len(workload[p]) :
        workload[p][i][1] < 0 \/ workload[p][i][1] >= TOTAL_SECTORS

\* C21: a workload with a step whose sector is outside [0, total_sectors)
\* is rejected before any simulation step runs: the clock does not advance,
\* the cache is not accessed and no disk request is created.
C21_OutOfRangeRejected ==
    WorkloadOutOfRange =>
        /\ system.current_time = 0
        /\ system.cache.hits + system.cache.misses = 0
        /\ system.requests = EmptyDict
        /\ system.disk.completed_requests = 0

\* C22: in a cache of at least one buffer, whatever the segment caps (caps
\* of 0 included) and whatever accesses were made before, acquiring a
\* buffer does not fail: _get_free_buffer does not raise "No available
\* buffers!", and so no access to any sector, cached or not, raises it.
C22_AcquisitionNeverFails ==
    system.cache.size >= 1 =>
        /\ ~_get_free_buffer(system.cache).raised
        /\ \A sector \in CacheSectors, is_write \in BOOLEAN :
              ~access_buffer(system.cache, sector, is_write).raised

\* a miss was served from the tail of Left, the last place acquisition
\* looks in: every buffer is in Left and more sectors were bound than the
\* cache has buffers
C22_Witness ==
    /\ pc = "cache"
    /\ system.cache.free_buffers = <<>>
    /\ system.cache.middle_segment = <<>>
    /\ system.cache.right_segment = <<>>
    /\ Len(system.cache.left_segment) = system.cache.size
    /\ system.cache.misses > system.cache.size

\* the position of a step inside one iteration of the main loop, counted
\* back from the end of the body
BodyRemaining ==
    CASE pc = "interrupts"    -> 7
      [] pc = "dispatch"      -> 6
      [] pc = "execute"       -> 5
      [] pc = "execute_cache" -> 4
      [] pc = "execute_end"   -> 3
      [] pc = "kick"          -> 2
      [] pc = "idle"          -> 1
      [] OTHER                -> 0

\* A measure of the work run_simulation has left: the phase (adding
\* processes, main loop, flush, ended) and, inside the phase, the processes
\* still to add, the iterations the cap still allows with the rest of the
\* current body, or the requests the flush loop still has to serve.
Remaining ==
    CASE pc = "setup"      -> <<3, NumProcs - Len(system.processes) + 1>>
      [] pc = "flush"      -> <<1, Cardinality(QueuedRequests)
                                   + Len(get_dirty_buffers(system.cache)) + 2>>
      [] pc = "flush_loop" -> <<1, Cardinality(QueuedRequests) + 1>>
      [] pc = "done"       -> <<0, 0>>
      [] OTHER             -> <<2, (max_iterations - iteration_count) * 8 + BodyRemaining>>

\* lexicographic order on the measure
Less(a, b) == a[1] < b[1] \/ (a[1] = b[1] /\ a[2] < b[2])

\* The two places where the code could fail to take a step that changes its
\* state: the cache access of _execute_process raising, and a turn of the
\* flush loop that leaves the system as it was.  (Everywhere else the
\* statement that follows is unconditional.)  s, at and fr are the system,
\* the position and the locals of _execute_process.
Stalled(s, at, fr) ==
    \/ /\ at = "execute_cache"
       /\ s.current_process = fr.process
       /\ ~fr.was_interrupted
       /\ s.processes[fr.process].remaining_quantum > 0
       /\ access_buffer(s.cache, fr.sector, fr.is_write).raised
    \/ /\ at = "flush_loop"
       /\ has_requests(s.scheduler)
       /\ flush_turn(s) = s

\* C23: run_simulation terminates.  The main loop makes at most
\* max_iterations iterations; every step of the run strictly decreases a
\* measure that cannot decrease for ever (in the flush loop: every turn
\* takes at least one request out of the scheduler, under every policy);
\* and a step never leads to a state in which the run is stuck.
C23_RunTerminates ==
    [][/\ iteration_count' <= max_iterations
       /\ Remaining'[2] >= 0
       /\ Less(Remaining', Remaining)
       /\ ~Stalled(system', pc', frame')]_vars

\* a run ended whose main loop was stopped by the iteration cap, and whose
\* flush loop then drove the disk
C23_Witness ==
    /\ pc = "done"
    /\ iteration_count = max_iterations
    /\ dirty # <<>>

\* the disk service order of a run: for each request its sector, mode,
\* process and the times it was created and completed
ServiceOrder(s) == s.requests

\* C24: a run made after System.reset() on a System that has run the
\* workload before gives the same disk service order and the same
\* statistics (cache hits and misses, seek total, per-process cpu, io and
\* wait times) as the run on the freshly constructed System with the same
\* policy and the same processes.
C24_ResetRunsAlike ==
    (/\ pc = "done" /\ after_reset
     /\ previous_runs[1].scheduler.name = system.scheduler.name)
      => LET fresh == previous_runs[1]
         IN  /\ ServiceOrder(system) = ServiceOrder(fresh)
             /\ system.cache.hits = fresh.cache.hits
             /\ system.cache.misses = fresh.cache.misses
             /\ system.disk.total_seek_time = fresh.disk.total_seek_time
             /\ \A i \in 1..Len(fresh.processes) :
                   /\ system.processes[i].total_cpu_time = fresh.processes[i].total_cpu_time
                   /\ system.processes[i].total_io_time = fresh.processes[i].total_io_time
                   /\ system.processes[i].total_wait_time = fresh.processes[i].total_wait_time

\* the tracks of the queued requests, and those on the side of the head
\* the sweep is moving to
QueuedTracks == {system.requests[r].track : r \in SeqToSet(system.scheduler.queue)}

TracksAhead(current_track) ==
    IF system.scheduler.direction_forward
    THEN {t \in QueuedTracks : t >= current_track}
    ELSE {t \in QueuedTracks : t <= current_track}

SetMin(S) == CHOOSE x \in S : \A y \in S : x <= y

SetMax(S) == CHOOSE x \in S : \A y \in S : x >= y

\* the track the sweep rule selects with the head on current_track
SweepTrack(current_track) ==
    LET ahead_of_head == TracksAhead(current_track)
        from == IF ahead_of_head # {} THEN ahead_of_head ELSE QueuedTracks
    IN  IF system.scheduler.direction_forward THEN SetMin(from) ELSE SetMax(from)

\* the anti-starvation rule removes the candidate of the sweep rule
DropFires(current_track) ==
    /\ system.scheduler.last_track = SweepTrack(current_track)
    /\ system.scheduler.same_track_count + 1 >= config.LOOK_MAX_SAME_TRACK

\* get_next_request, called with the head on current_track, follows the
\* sweep rule: it returns a queued request of the selected track, removes
\* it from the queue, and reverses the direction flag exactly when no
\* request was queued on the side the sweep was moving to
FollowsSweep(current_track) ==
    LET r == get_next_request(system.scheduler, system.requests, current_track)
    IN  /\ r.request \in SeqToSet(system.scheduler.queue)
        /\ system.requests[r.request].track = SweepTrack(current_track)
        /\ SeqToSet(r.scheduler.queue) = SeqToSet(system.scheduler.queue) \ {r.request}
        /\ r.scheduler.direction_forward
              = IF TracksAhead(current_track) # {}
                THEN system.scheduler.direction_forward
                ELSE ~system.scheduler.direction_forward

FirstSmallestInRight(c, i, clean) ==
    LET eligible(j) == clean => ~c.buffers[c.right_segment[j]].is_dirty
        counter(j)  == c.buffers[c.right_segment[j]].counter
    IN  /\ eligible(i)
        /\ \A j \in 1..Len(c.right_segment) : eligible(j) => counter(i) <= counter(j)
        /\ \A j \in 1..(i - 1) : eligible(j) => counter(j) # counter(i)

\* C27: acquisition of a buffer follows a strict order.  With a free
\* buffer: the oldest one (the head of the free list).  Otherwise, with
\* Right non-empty: the first buffer, front to back, with the smallest
\* counter among the clean buffers of Right, or among all of Right if none
\* is clean; a dirty buffer of Right is never taken while Right holds a
\* clean one.  Otherwise the tail of Middle; otherwise the tail of Left.
\* The buffer is taken out of the list it was found in and nothing else
\* changes in the lists.
C27_AcquisitionOrder ==
    LET c == system.cache
        g == _get_free_buffer(c)
        b == g.buffer
        right == c.right_segment
        some_clean == \E j \in 1..Len(right) : ~c.buffers[right[j]].is_dirty
    IN  /\ ~g.raised
        /\ c.free_buffers # <<>> =>
              /\ b = Head(c.free_buffers)
              /\ g.cache.free_buffers = Tail(c.free_buffers)
              /\ g.cache.right_segment = right
              /\ g.cache.middle_segment = c.middle_segment
              /\ g.cache.left_segment = c.left_segment
        /\ (c.free_buffers = <<>> /\ right # <<>>) =>
              /\ \E i \in 1..Len(right) :
                    /\ b = right[i]
                    /\ FirstSmallestInRight(c, i, some_clean)
              /\ some_clean => ~c.buffers[b].is_dirty
              /\ g.cache.right_segment = ListRemove(right, b)
              /\ g.cache.middle_segment = c.middle_segment
              /\ g.cache.left_segment = c.left_segment
        /\ (c.free_buffers = <<>> /\ right = <<>> /\ c.middle_segment # <<>>) =>
              /\ b = c.middle_segment[Len(c.middle_segment)]
              /\ g.cache.middle_segment = ListFront(c.middle_segment)
              /\ g.cache.left_segment = c.left_segment
        /\ (c.free_buffers = <<>> /\ right = <<>> /\ c.middle_segment = <<>>) =>
              /\ b = c.left_segment[Len(c.left_segment)]
              /\ g.cache.left_segment = ListFront(c.left_segment)

\* after an eviction, with no free buffer left, Right holds a dirty buffer
\* in front of a clean one
C27_Witness ==
    LET c == system.cache
    IN  /\ pc = "cache"
        /\ c.free_buffers = <<>>
        /\ c.misses > c.size
        /\ Len(c.right_segment) >= 2
        /\ c.buffers[c.right_segment[1]].is_dirty
        /\ \E j \in 2..Len(c.right_segment) : ~c.buffers[c.right_segment[j]].is_dirty

\* a hit on the buffer of a cached sector that is in Middle or Right adds
\* exactly 1 to its counter and, if in_left_required, leaves it at the front
\* of Left with the tag of Left
ColdHitPromotes(in_left_required) ==
    LET c == system.cache
    IN  \A sector \in DOMAIN c.sector_to_buffer, is_write \in BOOLEAN :
            LET b == c.sector_to_buffer[sector]
                a == access_buffer(c, sector, is_write)
            IN  (InList(c.middle_segment, b) \/ InList(c.right_segment, b)) =>
                    /\ a.is_hit /\ a.buffer = b
                    /\ a.cache.buffers[b].counter = c.buffers[b].counter + 1
                    /\ in_left_required =>
                          /\ a.cache.left_segment # <<>>
                          /\ Head(a.cache.left_segment) = b
                          /\ a.cache.buffers[b].segment = "left"

\* in a step, a counter of a buffer that keeps its sector grows only by a
\* hit on that buffer, found in Middle or Right, and then by exactly 1
OnlyColdHitsCount ==
    \A b \in DOMAIN system.cache.buffers :
        LET old == system.cache.buffers[b]
            new == system'.cache.buffers[b]
        IN  (old.sector # None /\ new.sector = old.sector /\ new.counter > old.counter)
                => /\ system'.cache.hits = system.cache.hits + 1
                   /\ old.segment \in {"middle", "right"}
                   /\ new.counter = old.counter + 1

\* C28 as stated: a hit on a buffer in Middle or Right adds exactly 1 to
\* its counter and moves it to the front of Left with the tag of Left,
\* whatever the segment caps; hits are the only operation that increments
\* a counter.
C28_ColdHitToLeftAlways ==
    [][ColdHitPromotes(TRUE) /\ OnlyColdHitsCount]_vars

\* C28, amended: a hit on a buffer in Middle or Right adds exactly 1 to its
\* counter; if Left_max >= 1 it leaves the buffer at the front of Left with
\* the tag of Left (with Left_max = 0 rebalancing demotes it again at
\* once); hits are the only operation that increments a counter.
C28_ColdHitPromotes ==
    [][ColdHitPromotes(system.cache.left_max >= 1) /\ OnlyColdHitsCount]_vars

\* a buffer that was hit in Middle or Right is at the front of Left with
\* counter 2
C28_Witness ==
    LET c == system.cache
    IN  /\ pc = "cache"
        /\ c.left_max >= 1
        /\ c.hits = 1
        /\ c.left_segment # <<>>
        /\ c.buffers[Head(c.left_segment)].counter = 2
        /\ c.middle_segment # <<>>

\* ------------------------------------------------------------------------
\* C29: when the system call of the Running process completes without
\* preemption, the step mints exactly one disk request and blocks the process
\* (entry in the blocked map, Running slot cleared) if and only if the cache
\* access missed, for a read as for a write; on a hit no request is created
\* and the process keeps the CPU for the compute charge.
\* ------------------------------------------------------------------------

\* the outcome of the step for a miss on frame.sector
BlockedOnMiss(s, t) ==
    LET id == s.request_counter + 1
        process == frame.process
    IN  /\ t.request_counter = id
        /\ DOMAIN t.requests = (DOMAIN s.requests) \cup {id}
        /\ id \notin (DOMAIN s.requests)
        /\ t.requests[id].sector = frame.sector
        /\ t.requests[id].is_write = frame.is_write
        /\ t.requests[id].process_id = process
        /\ t.processes[process].state = "BLOCKED"
        /\ t.processes[process].waiting_for_io
        /\ t.processes[process].io_request = id
        /\ process \in DOMAIN t.blocked_processes
        /\ t.blocked_processes[process][1] = id
        /\ t.current_process = None
        /\ t.total_process_time = s.total_process_time

\* the outcome of the step for a hit on frame.sector
ComputesOnHit(s, t) ==
    LET process == frame.process
    IN  /\ t.request_counter = s.request_counter
        /\ DOMAIN t.requests = DOMAIN s.requests
        /\ t.current_process = process
        /\ t.processes[process].state = "RUNNING"
        /\ process \notin (DOMAIN t.blocked_processes)
        /\ t.total_process_time > s.total_process_time
        /\ t.processes[process].total_cpu_time
              > s.processes[process].total_cpu_time

C29_MissBlocksHitComputes ==
    [][CanAccess =>
         LET a == access_buffer(system.cache, frame.sector, frame.is_write)
         IN  IF a.is_hit THEN ComputesOnHit(system, system')
                         ELSE BlockedOnMiss(system, system')]_vars

\* a write that missed has just blocked its process
C29_Witness ==
    /\ pc = "kick"
    /\ system.current_process = None
    /\ \E p \in 1..Len(system.processes) :
          /\ system.processes[p].state = "BLOCKED"
          /\ p \in DOMAIN system.blocked_processes
          /\ system.processes[p].io_request = system.request_counter
          /\ system.requests[system.request_counter].is_write
          /\ system.requests[system.request_counter].time_created
                = system.current_time
    /\ system.cache.hits > 0

\* ------------------------------------------------------------------------
\* C30: a buffer made dirty by a write hit stays dirty, while it stays
\* cached, until the end-of-run flush enqueues a write request for its
\* sector; in particular the completion interrupt of a write request to the
\* same sector that was created before the hit does not clear the flag.
\* Stated for the step that makes the hit: the step runs the write hit and
\* then the compute charge, during which completion interrupts fire, and the
\* flush has not begun when it ends.
\* ------------------------------------------------------------------------

\* the step from the cache access is a write that hits
WriteHit ==
    /\ CanAccess
    /\ frame.is_write
    /\ access_buffer(system.cache, frame.sector, frame.is_write).is_hit

\* the buffer holding `sector` in cache c, if any, is dirty
DirtyIfCached(c, sector) ==
    LET b == find_buffer(c, sector)
    IN  b # None => c.buffers[b].is_dirty

C30_WriteHitStaysDirty ==
    [][WriteHit => DirtyIfCached(system'.cache, frame.sector)]_vars

\* ------------------------------------------------------------------------
\* C31: the completion interrupt of a request advances the clock by
\* INTERRUPT_HANDLER_TIME, clears the dirty flag of the cached buffer of the
\* request's sector if and only if the request is a write, and, if and only
\* if the request's process id is in the blocked map, removes that entry,
\* makes that process Ready with ready_since = now and appends it to the
\* tail of the ready queue; it never changes which process is Running.  Of
\* the other processes only the Running one changes: its remaining quantum
\* is debited by the handler time.  The handler is evaluated in every
\* reachable kernel state for every pending completion.
\* ------------------------------------------------------------------------

\* a process record without the fields the quantum debit writes
WithoutQuantum(p) ==
    [p EXCEPT !.remaining_quantum = 0, !.intr_charged = 0]

\* process q of s and t differ at most by the handler's debit; with
\* debit_allowed = FALSE they do not differ at all
OtherProcessKept(s, t, q, debit_allowed) ==
    IF debit_allowed /\ q = s.current_process
    THEN /\ WithoutQuantum(t.processes[q]) = WithoutQuantum(s.processes[q])
         /\ t.processes[q].remaining_quantum
               = s.processes[q].remaining_quantum - config.INTERRUPT_HANDLER_TIME
    ELSE t.processes[q] = s.processes[q]

\* the effects of _handle_disk_interrupt(request) called in state s
HandlerEffects(s, request, debit_allowed) ==
    LET t   == _handle_disk_interrupt(s, request)
        r   == s.requests[request]
        pid == r.process_id
        now == s.current_time + config.INTERRUPT_HANDLER_TIME
        b   == find_buffer(s.cache, r.sector)
    IN  /\ t.current_time = now
        /\ t.requests[request].time_completed = now
        /\ t.current_process = s.current_process
        /\ IF r.is_write /\ b # None
           THEN t.cache = [s.cache EXCEPT !.buffers[b].is_dirty = FALSE]
           ELSE t.cache = s.cache
        /\ IF pid \in DOMAIN s.blocked_processes
           THEN /\ t.blocked_processes = DictDel(s.blocked_processes, pid)
                /\ t.processes[pid].state = "READY"
                /\ t.processes[pid].ready_since = now
                /\ ~t.processes[pid].waiting_for_io
                /\ t.ready_queue = Append(s.ready_queue, pid)
           ELSE /\ t.blocked_processes = s.blocked_processes
                /\ t.ready_queue = s.ready_queue
        /\ \A q \in 1..Len(s.processes) :
              (q # pid \/ pid \notin DOMAIN s.blocked_processes)
                 => OtherProcessKept(s, t, q, debit_allowed)

\* the claim as worded: no process other than the unblocked one is touched
C31_InterruptTouchesNoOther ==
    \A i \in 1..Len(system.pending_disk_operations) :
        HandlerEffects(system, system.pending_disk_operations[i][2], FALSE)

C31_InterruptEffects ==
    \A i \in 1..Len(system.pending_disk_operations) :
        HandlerEffects(system, system.pending_disk_operations[i][2], TRUE)

\* a write request of a Blocked process is pending, its buffer is cached and
\* dirty and another process is Running
C31_Witness ==
    /\ system.pending_disk_operations # <<>>
    /\ LET r == system.requests[system.pending_disk_operations[1][2]]
           b == find_buffer(system.cache, r.sector)
       IN  /\ r.is_write
           /\ b # None
           /\ system.cache.buffers[b].is_dirty
           /\ r.process_id \in DOMAIN system.blocked_processes
           /\ system.current_process # None
           /\ system.current_process # r.process_id

\* ------------------------------------------------------------------------
\* C32: after the end-of-run flush returns (all processes Finished), no
\* buffer is dirty, every buffer that was dirty when the flush started is in
\* the free pool with no sector, the disk serviced one write with process id
\* -1 for each of those buffers, the disk scheduler is empty and no
\* completion is pending.
\* ------------------------------------------------------------------------

\* the flush writes the disk has completed
ServicedFlushWrites(s) ==
    {r \in DOMAIN s.requests :
        /\ s.requests[r].process_id = FlushPid
        /\ s.requests[r].is_write
        /\ s.requests[r].time_completed # None}

\* the state the claim describes, for the buffers bs that were dirty when
\* the flush started
Flushed(s, bs) ==
    /\ \A b \in DOMAIN s.cache.buffers : ~s.cache.buffers[b].is_dirty
    /\ \A i \in 1..Len(bs) :
          /\ InList(s.cache.free_buffers, bs[i])
          /\ s.cache.buffers[bs[i]].sector = None
    /\ Cardinality(ServicedFlushWrites(s)) = Len(bs)
    /\ ~has_requests(s.scheduler)
    /\ s.pending_disk_operations = <<>>

C32_FlushWritesEveryDirtyBuffer ==
    (pc = "done" /\ ~_has_active_processes(system)) => Flushed(system, dirty)

\* the same for the policies without the same-track limit
FlushCompleteUnlessLOOK ==
    (pc = "done" /\ ~_has_active_processes(system) /\ system.scheduler.name # "LOOK")
        => Flushed(system, dirty)

\* ------------------------------------------------------------------------
\* C33: in every reachable kernel state the ready queue holds exactly the
\* Ready processes, each once; at most one process is Running and it is the
\* one in the Running slot; the keys of the blocked map are exactly the
\* Blocked processes.  A Finished process never changes state again.
\* ------------------------------------------------------------------------

ProcessesInState(s, state) ==
    {i \in 1..Len(s.processes) : s.processes[i].state = state}

ReadyQueueExact(s) ==
    /\ SeqToSet(s.ready_queue) = ProcessesInState(s, "READY")
    /\ \A i, j \in 1..Len(s.ready_queue) :
          s.ready_queue[i] = s.ready_queue[j] => i = j

RunningSlotExact(s) ==
    ProcessesInState(s, "RUNNING") =
        (IF s.current_process = None THEN {} ELSE {s.current_process})

BlockedMapExact(s) ==
    DOMAIN s.blocked_processes = ProcessesInState(s, "BLOCKED")

ProcessStatesConsistent(s) ==
    /\ ReadyQueueExact(s)
    /\ RunningSlotExact(s)
    /\ BlockedMapExact(s)

C33_ProcessStatesConsistent ==
    [][/\ ProcessStatesConsistent(system)
       /\ ProcessStatesConsistent(system')
       /\ \A i \in 1..Len(system.processes) :
             system.processes[i].state = "FINISHED"
                => system'.processes[i].state = "FINISHED"]_vars

\* one process has finished; the other, unblocked by a completion interrupt
\* earlier, is Running again
C33_Witness ==
    /\ pc = "execute"
    /\ \E i, j \in 1..Len(system.processes) :
          /\ system.processes[i].state = "FINISHED"
          /\ system.processes[j].state = "RUNNING"
          /\ system.processes[j].total_io_time > 0

\* ------------------------------------------------------------------------
\* C34: round-robin order.  Processes are dispatched in the order in which
\* they became Ready (added, preempted or unblocked): the only step that
\* fills the Running slot takes the head of the ready queue and resets its
\* remaining quantum to TIME_QUANTUM, and every other step leaves the queue
\* as it was or extends it at the tail, so a process that becomes Ready is
\* never ahead of one that was already queued.
\* ------------------------------------------------------------------------

\* the step pops the head of the ready queue into the Running slot
DispatchesHead(s, t) ==
    /\ s.current_process = None
    /\ s.ready_queue # <<>>
    /\ t.current_process = Head(s.ready_queue)
    /\ t.ready_queue = Tail(s.ready_queue)
    /\ t.processes[t.current_process].state = "RUNNING"
    /\ t.processes[t.current_process].remaining_quantum = config.TIME_QUANTUM

\* the ready queue of t is the one of s with arrivals at the tail
ExtendsAtTail(s, t) ==
    /\ Len(t.ready_queue) >= Len(s.ready_queue)
    /\ SubSeq(t.ready_queue, 1, Len(s.ready_queue)) = s.ready_queue

C34_RoundRobinOrder ==
    [][IF system'.current_process # None
          /\ system'.current_process # system.current_process
       THEN DispatchesHead(system, system')
       ELSE ExtendsAtTail(system, system')]_vars

\* the second process has been dispatched ahead of the first, which ran
\* before and re-entered the queue behind it
C34_Witness ==
    /\ pc = "execute"
    /\ Len(system.processes) = 2
    /\ system.current_process = 2
    /\ system.ready_queue = <<1>>
    /\ system.processes[1].current_index > 0
    /\ system.processes[2].remaining_quantum = config.TIME_QUANTUM

\* ------------------------------------------------------------------------
\* C35: _advance_time_with_interrupts(d) for a Running process returns a
\* charged time t with 0 <= t <= d, debits t plus the handler time of every
\* interrupt it delivered from remaining_quantum, advances the clock by the
\* same amount, delivers every pending completion whose time falls inside
\* the advanced interval at its scheduled time, returns preempted = TRUE
\* whenever remaining_quantum reached zero and t = d whenever preempted =
\* FALSE.  The call is evaluated at its two call sites in every reachable
\* kernel state: the system call and the compute charge.
\* ------------------------------------------------------------------------

\* the contract of one call with duration d in state s
AdvanceContract(s, d) ==
    LET adv == _advance_time_with_interrupts(s, d)
        t   == adv.system
        p   == s.current_process
        delivered == Len(s.pending_disk_operations) - Len(t.pending_disk_operations)
        handler   == delivered * config.INTERRUPT_HANDLER_TIME
    IN  /\ 0 <= adv.time_used /\ adv.time_used <= d
        /\ delivered >= 0
        /\ t.processes[p].remaining_quantum
              = s.processes[p].remaining_quantum - adv.time_used - handler
        /\ t.current_time = s.current_time + adv.time_used + handler
        /\ \A i \in 1..Len(s.pending_disk_operations) :
              LET e == s.pending_disk_operations[i]
              IN  IF s.current_time < e[1] /\ e[1] <= t.current_time
                  THEN /\ ~InList(t.pending_disk_operations, e)
                       /\ t.requests[e[2]].time_completed
                             = e[1] + config.INTERRUPT_HANDLER_TIME
                  ELSE /\ InList(t.pending_disk_operations, e)
                       /\ t.requests[e[2]].time_completed = None
        /\ t.processes[p].remaining_quantum <= 0 => adv.was_interrupted
        /\ ~adv.was_interrupted => adv.time_used = d

\* the call of line 321 can be made in state `system`
AtSyscall ==
    /\ pc = "execute"
    /\ system.current_process # None
    /\ has_more_work(system.processes[system.current_process])

C35_AdvanceContract ==
    /\ AtSyscall =>
          /\ AdvanceContract(system, config.SYSCALL_READ_TIME)
          /\ AdvanceContract(system, config.SYSCALL_WRITE_TIME)
    /\ CanAccess =>
          /\ AdvanceContract(system, config.PROCESS_READ_TIME)
          /\ AdvanceContract(system, config.PROCESS_WRITE_TIME)

\* a compute charge is about to be cut by the quantum after it has
\* delivered the pending completion
C35_Witness ==
    /\ CanAccess
    /\ system.pending_disk_operations # <<>>
    /\ LET adv == _advance_time_with_interrupts(system, config.PROCESS_READ_TIME)
       IN  /\ adv.system.pending_disk_operations = <<>>
           /\ adv.was_interrupted
           /\ adv.time_used > 0
           /\ adv.time_used < config.PROCESS_READ_TIME

\* ------------------------------------------------------------------------
\* C36: every program step a process consumes (every advance of its cursor)
\* results in exactly one cache access: between the steps of the main loop,
\* and at the end of the run, cache hits + misses equals the sum of the
\* cursors of all processes, so a step whose system call was cut short by
\* quantum exhaustion is not skipped.
\* ------------------------------------------------------------------------

RECURSIVE SumOfCursors(_)
SumOfCursors(ps) ==
    IF ps = <<>> THEN 0 ELSE Head(ps).current_index + SumOfCursors(Tail(ps))

C36_EveryStepAccessesCache ==
    pc \in {"loop", "flush", "done"}
        => system.cache.hits + system.cache.misses = SumOfCursors(system.processes)

\* the same when no quantum is shorter than a system call
StepsAccessCacheUnlessShortQuantum ==
    (pc \in {"loop", "flush", "done"} /\ config # ShortQuantumConfig)
        => system.cache.hits + system.cache.misses = SumOfCursors(system.processes)

\* ------------------------------------------------------------------------
\* C37: under FIFO and FLOOK, in every main-loop state each Blocked process
\* has exactly one outstanding request (queued in the disk scheduler or in
\* service as the pending completion) and every outstanding request belongs
\* to a Blocked process; hence when all processes are Finished the scheduler
\* is empty and the disk is idle before the flush starts.
\* ------------------------------------------------------------------------

MainLoopPcs ==
    {"loop", "interrupts", "dispatch", "execute", "execute_cache",
     "execute_end", "kick", "idle"}

\* the requests that are queued or in service
Outstanding == QueuedRequests \cup RequestsInService

OutstandingOf(p) == {r \in Outstanding : system.requests[r].process_id = p}

C37_OneRequestPerBlocked ==
    system.scheduler.name \in {"FIFO", "FLOOK"} =>
        /\ pc \in MainLoopPcs =>
              /\ \A p \in Pids :
                    system.processes[p].state = "BLOCKED"
                       => OutstandingOf(p) = {system.processes[p].io_request}
              /\ \A r \in Outstanding :
                    /\ system.requests[r].process_id \in Pids
                    /\ system.processes[system.requests[r].process_id].state = "BLOCKED"
              /\ QueuedRequests \cap RequestsInService = {}
        /\ (pc = "flush" /\ ~_has_active_processes(system)) =>
              /\ ~has_requests(system.scheduler)
              /\ system.pending_disk_operations = <<>>

\* two processes are Blocked, the request of one in service and the request
\* of the other queued
C37_Witness ==
    /\ system.scheduler.name \in {"FIFO", "FLOOK"}
    /\ pc \in MainLoopPcs
    /\ Len(system.processes) = 2
    /\ \A p \in Pids : system.processes[p].state = "BLOCKED"
    /\ QueuedRequests # {}
    /\ RequestsInService # {}

\* ------------------------------------------------------------------------
\* C38: for every Finished process total_cpu_time equals the sum over its
\* program steps of the system-call time plus, for each step that hit the
\* cache, the full PROCESS_READ_TIME or PROCESS_WRITE_TIME: a charge cut
\* short by quantum exhaustion is resumed later, not dropped.  Stated for
\* the processes of a run together, once all of them are Finished: the hits
\* of the cache are then exactly their steps that hit, and the two compute
\* times are equal in every configuration considered.
\* ------------------------------------------------------------------------

\* the full system-call charges of the steps a process has consumed
RECURSIVE SyscallCharges(_, _)
SyscallCharges(p, i) ==
    IF i > p.current_index THEN 0
    ELSE (IF p.read_write_pattern[i] THEN config.SYSCALL_WRITE_TIME
                                     ELSE config.SYSCALL_READ_TIME)
         + SyscallCharges(p, i + 1)

RECURSIVE FullCharges(_)
FullCharges(ps) ==
    IF ps = <<>> THEN 0
    ELSE SyscallCharges(Head(ps), 1) + FullCharges(Tail(ps))

RECURSIVE CpuTimes(_)
CpuTimes(ps) ==
    IF ps = <<>> THEN 0 ELSE Head(ps).total_cpu_time + CpuTimes(Tail(ps))

C38_CpuTimeIsFullCharges ==
    (/\ system.processes # <<>>
     /\ ~_has_active_processes(system)
     /\ config.PROCESS_READ_TIME = config.PROCESS_WRITE_TIME)
        => CpuTimes(system.processes)
             = FullCharges(system.processes)
                 + system.cache.hits * config.PROCESS_READ_TIME

\* ------------------------------------------------------------------------
\* C39: when BUFFER_COUNT <= LFU_LEFT_SEGMENT_MAX + LFU_MIDDLE_SEGMENT_MAX
\* (as in the default configuration, 5 <= 4 + 3) the Right segment is empty
\* in every reachable state, so every eviction takes the tail of Middle, or
\* of Left when Middle is empty, whatever its dirty flag: the preference
\* for clean buffers is never exercised.
\* ------------------------------------------------------------------------

\* the two caps hold every buffer of cache c
CapsCoverBuffers(c) == c.size <= c.left_max + c.middle_max

\* the buffer an eviction from c takes is the tail of Middle, or of Left
EvictsTail(c) ==
    LET b == _get_free_buffer(c).buffer
    IN  IF c.middle_segment # <<>>
        THEN b = c.middle_segment[Len(c.middle_segment)]
        ELSE c.left_segment # <<>> /\ b = c.left_segment[Len(c.left_segment)]

C39_RightStaysEmpty ==
    CapsCoverBuffers(system.cache) =>
        /\ system.cache.right_segment = <<>>
        /\ (system.cache.free_buffers = <<>> /\ pc = "cache")
              => EvictsTail(system.cache)

\* a buffer whose write was still in flight, hence dirty, has been evicted
\* although a clean buffer older than the newcomer stays cached
C39_Witness ==
    /\ pc = "cache"
    /\ CapsCoverBuffers(system.cache)
    /\ system.cache.hits = 0
    /\ system.cache.misses > system.cache.size
    /\ \E sector \in write_requests : sector \notin DOMAIN system.cache.sector_to_buffer
    /\ \E i \in 1..Len(system.cache.middle_segment) :
          ~system.cache.buffers[system.cache.middle_segment[i]].is_dirty

====
